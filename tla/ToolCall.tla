-------------------------------- MODULE ToolCall --------------------------------
(***************************************************************************)
(* The life of one tool call: a process that the Secure Tool Runtime (the  *)
(* host) starts with a file of arguments, that reads its configuration,    *)
(* opens the database, migrates, does its work and leaves a result file.   *)
(* On the way arguments, configuration, database, status pipe and result   *)
(* file may each fail it, the handler may panic, and the host may signal   *)
(* it, kill it or never open the status pipe.                              *)
(*                                                                         *)
(* The Go process is modelled with its SDK.  Of the Python process the     *)
(* SDK is another package: its handler is modelled, a result is written    *)
(* for whatever the handler returns, and SIGTERM kills it.                 *)
(***************************************************************************)
EXTENDS Integers

CONSTANTS
    WindowNumbers,  \* the numbers written as correlation_window_seconds
    DefaultWindow,  \* 300
    GoMaxSeconds,   \* the seconds a 64-bit time.Duration holds: 9223372036
    PyMaxSeconds,   \* the seconds a timedelta holds: 86399999999999
    MaxRetries      \* 5: how often the status pipe is tried

ASSUME CallAssumption ==
    /\ WindowNumbers \subseteq Int
    /\ DefaultWindow \in 1..GoMaxSeconds
    /\ GoMaxSeconds \in Nat /\ PyMaxSeconds \in Nat /\ GoMaxSeconds < PyMaxSeconds
    /\ MaxRetries \in Nat \ {0}

(***************************************************************************)
(* A configuration as it may arrive in JSON: each key may be left out,     *)
(* null or of a type the schema does not name.  A "lenient" window is text *)
(* that only Python takes for an integer: it has blanks around it, an      *)
(* underscore between two digits or the digits of another script.  Text of *)
(* the other kinds begins and ends with no control character, of which the *)
(* two languages strip different ones.                                     *)
(***************************************************************************)
WindowValue ==
    [kind: {"number", "text", "lenient"}, n: WindowNumbers]
    \union [kind: {"absent", "null", "true", "list"}, n: {0}]

Config == [url: {"text", "blank", "absent", "null"},
           sources: {"text", "blank", "absent", "null", "list"},
           window: WindowValue]

Tools    == {"ingest", "sweep", "history", "unknown"}
Requests == {"good", "bad type", "bad value"}
Codes    == {"OK", "INVALID_VALUE", "CONFIGURATION_OR_DATABASE_ERROR", "FAILED", "error"}
Pcs      == {"start", "find tool", "invoke", "check", "configure", "open", "migrate",
             "built", "status", "work", "working", "close", "return", "write",
             "exited", "failed", "killed"}
NoEngine == [sources |-> "none", window |-> 0]

VARIABLES
    impl, tool, request, config,    \* what is called, fixed at the start
    pc,         \* the next step of the process
    notified,   \* whether the process catches SIGTERM
    cancelled,  \* whether the context of the call is cancelled
    reader,     \* whether the host has opened the status pipe for reading
    tries,      \* how often the process has tried to open it
    store,      \* the database connection: "none", "open" or "closed"
    answer,     \* the result the handler has returned
    result      \* the content of the result file

call == <<impl, tool, request, config>>
vars == <<call, pc, notified, cancelled, reader, tries, store, answer, result>>

-----------------------------------------------------------------------------
(***************************************************************************)
(* Configuration.  Go takes the default for what is not a string; Python   *)
(* takes the text of whatever is there.                                    *)
(***************************************************************************)
GoSources(value) ==
    CASE value = "text"  -> "given"
      [] value = "blank" -> "none"
      [] OTHER           -> "default"

PySources(value) ==
    CASE value = "text"   -> "given"
      [] value = "blank"  -> "none"
      [] value = "absent" -> "default"
      [] OTHER            -> "text of the value"

\* FAULTY VARIANT of GoSeconds: a numeral in a string is taken for the default.
GoSecondsNumbersOnly(value) ==
    CASE value.kind = "number" -> value.n
      [] value.kind \in {"absent", "null", "text"} -> DefaultWindow
      [] OTHER -> 0

\* Zero, refused below, stands for a value that does not convert.
GoSeconds(value) ==
    CASE value.kind \in {"number", "text"} -> value.n
      [] value.kind \in {"absent", "null"} -> DefaultWindow
      [] OTHER -> 0

PySeconds(value) ==
    CASE value.kind \in {"number", "text", "lenient"} -> value.n
      [] value.kind = "absent" -> DefaultWindow
      [] value.kind = "true" -> 1
      [] OTHER -> 0

\* time.Duration(seconds) * time.Second in 64 bits.
GoDuration(seconds) ==
    ((seconds + GoMaxSeconds + 1) % (2 * (GoMaxSeconds + 1))) - (GoMaxSeconds + 1)

(***************************************************************************)
(* The engine built from a configuration, before the database is opened.   *)
(***************************************************************************)
GoEngine(c) ==
    IF c.url = "text" /\ GoSources(c.sources) # "none" /\ GoSeconds(c.window) > 0
    THEN [sources |-> GoSources(c.sources), window |-> GoDuration(GoSeconds(c.window))]
    ELSE NoEngine

\* str(None) is a database URL as far as this test goes.
PyEngine(c) ==
    IF c.url \in {"text", "null"} /\ PySources(c.sources) # "none"
       /\ PySeconds(c.window) > 0
    THEN [sources |-> PySources(c.sources), window |-> PySeconds(c.window)]
    ELSE NoEngine

Engine == IF impl = "go" THEN GoEngine(config) ELSE PyEngine(config)

-----------------------------------------------------------------------------
Init ==
    /\ impl \in {"go", "python"} /\ tool \in Tools /\ request \in Requests
    /\ config \in Config
    /\ pc = "start"
    /\ notified = FALSE /\ cancelled = FALSE
    /\ reader = FALSE /\ tries = 0
    /\ store = "none"
    /\ answer = "none" /\ result = "none"

Step(from, to) == pc = from /\ pc' = to
Return(code)   == answer' = code /\ pc' = "return"
Same(others)   == UNCHANGED <<call, others>>

(***************************************************************************)
(* execute: the argument file may be missing or unreadable, which ends the *)
(* process without a result.                                               *)
(***************************************************************************)
ReadArgs ==
    /\ Step("start", "find tool") \/ Step("start", "failed")
    /\ Same(<<notified, cancelled, reader, tries, store, answer, result>>)

FindTool ==
    /\ pc = "find tool"
    /\ IF tool = "unknown" THEN answer' = "error" /\ pc' = "write"
       ELSE pc' = "invoke" /\ UNCHANGED answer
    /\ Same(<<notified, cancelled, reader, tries, store, result>>)

\* Parameters are converted under the handler of the process's signals.
Invoke ==
    /\ pc = "invoke"
    /\ notified' = (impl = "go")
    /\ IF request = "bad type" THEN Return("error") ELSE pc' = "check" /\ UNCHANGED answer
    /\ Same(<<cancelled, reader, tries, store, result>>)

(***************************************************************************)
(* The handler.  Ingest checks its time stamp first.  A history query      *)
(* checks its filter and limit first in Python, and in Go when the         *)
(* database is open.                                                       *)
(***************************************************************************)
ChecksFirst == tool = "ingest" \/ (tool = "history" /\ impl = "python")
ChecksLast  == tool = "history" /\ impl = "go"

CheckRequest ==
    /\ pc = "check"
    /\ IF request = "bad value" /\ ChecksFirst
       THEN Return("INVALID_VALUE")
       ELSE pc' = "configure" /\ UNCHANGED answer
    /\ Same(<<notified, cancelled, reader, tries, store, result>>)

Configure ==
    /\ pc = "configure"
    /\ IF Engine = NoEngine
       THEN Return("CONFIGURATION_OR_DATABASE_ERROR")
       ELSE pc' = "open" /\ UNCHANGED answer
    /\ Same(<<notified, cancelled, reader, tries, store, result>>)

\* The ping that opens a Go store has a context of its own.
OpenStore ==
    /\ pc = "open"
    /\ \/ config.url = "text" /\ store' = "open" /\ pc' = "migrate" /\ UNCHANGED answer
       \/ Return("CONFIGURATION_OR_DATABASE_ERROR") /\ UNCHANGED store
    /\ Same(<<notified, cancelled, reader, tries, result>>)

\* FAULTY VARIANT of Migrate: a failed migration leaves the store open.
MigrateKeepsStore ==
    /\ pc = "migrate"
    /\ \/ ~cancelled /\ pc' = "built" /\ UNCHANGED answer
       \/ Return("CONFIGURATION_OR_DATABASE_ERROR")
    /\ Same(<<notified, cancelled, reader, tries, store, result>>)

Migrate ==
    /\ pc = "migrate"
    /\ \/ ~cancelled /\ pc' = "built" /\ UNCHANGED <<answer, store>>
       \/ Return("CONFIGURATION_OR_DATABASE_ERROR") /\ store' = "closed"
    /\ Same(<<notified, cancelled, reader, tries, result>>)

\* timedelta raises when the window is too long for it, and nothing closes the
\* store, which the handler never gets.
BuildEngine ==
    /\ pc = "built"
    /\ CASE impl = "python" /\ Engine.window > PyMaxSeconds ->
              Return("CONFIGURATION_OR_DATABASE_ERROR")
         [] request = "bad value" /\ ChecksLast ->
              answer' = "INVALID_VALUE" /\ pc' = "close"
         [] OTHER ->
              /\ pc' = IF tool = "history" THEN "work" ELSE "status"
              /\ UNCHANGED answer
    /\ Same(<<notified, cancelled, reader, tries, store, result>>)

(***************************************************************************)
(* SendStatus opens the pipe without blocking.  It tries again while the   *)
(* host has not opened it, MaxRetries times, and gives the status up at    *)
(* once when it was given no pipe or cannot open it for another reason.    *)
(***************************************************************************)
\* FAULTY VARIANT of SendStatus: it tries until the host opens the pipe.
SendStatusInsists ==
    /\ pc = "status"
    /\ IF reader \/ impl = "python"
       THEN pc' = "work" /\ UNCHANGED tries
       ELSE tries' = (tries + 1) % MaxRetries /\ UNCHANGED pc
    /\ Same(<<notified, cancelled, reader, store, answer, result>>)

\* FAULTY VARIANT of SendStatus: one try too many.
SendStatusOnceMore ==
    /\ pc = "status"
    /\ \/ pc' = "work" /\ UNCHANGED tries
       \/ /\ impl = "go" /\ ~reader /\ tries < MaxRetries
          /\ tries' = tries + 1 /\ UNCHANGED pc
    /\ Same(<<notified, cancelled, reader, store, answer, result>>)

SendStatus ==
    /\ pc = "status"
    /\ \/ pc' = "work" /\ UNCHANGED tries
       \/ /\ impl = "go" /\ ~reader /\ tries < MaxRetries - 1
          /\ tries' = tries + 1 /\ UNCHANGED pc
    /\ Same(<<notified, cancelled, reader, store, answer, result>>)

(***************************************************************************)
(* The engine's operation needs a context that is not cancelled, but for   *)
(* an event of a source that is not expected, which it only reports.  It   *)
(* returns, fails or (Go) panics; what it does to the tables meanwhile is  *)
(* the subject of PostgresStore and AuditHistory.                          *)
(***************************************************************************)
StartWork ==
    /\ pc = "work"
    /\ \/ ~cancelled /\ pc' = "working" /\ UNCHANGED answer
       \/ cancelled /\ answer' = "FAILED" /\ pc' = "close"
       \/ tool = "ingest" /\ answer' = "OK" /\ pc' = "close"
    /\ Same(<<notified, cancelled, reader, tries, store, result>>)

Work ==
    /\ Step("working", "close")
    /\ answer' \in {"OK", "FAILED"} \union (IF impl = "go" THEN {"error"} ELSE {})
    /\ Same(<<notified, cancelled, reader, tries, store, result>>)

CloseStore ==
    /\ Step("close", "return")
    /\ store' = "closed"
    /\ Same(<<notified, cancelled, reader, tries, answer, result>>)

(***************************************************************************)
(* Whatever the handler returned, or panicked with, goes to the result     *)
(* file before the process stops catching signals.  Writing may fail.      *)
(***************************************************************************)
RecoverHandler ==
    /\ Step("return", "write")
    /\ Same(<<notified, cancelled, reader, tries, store, answer, result>>)

WriteResult ==
    /\ \/ Step("write", "exited") /\ result' = answer
       \/ Step("write", "failed") /\ UNCHANGED result
    /\ Same(<<notified, cancelled, reader, tries, store, answer>>)

Process ==
    \/ ReadArgs \/ FindTool \/ Invoke \/ CheckRequest \/ Configure \/ OpenStore
    \/ Migrate \/ BuildEngine \/ SendStatus \/ StartWork \/ Work \/ CloseStore
    \/ RecoverHandler \/ WriteResult

-----------------------------------------------------------------------------
Running == pc \notin {"exited", "failed", "killed"}

\* The host opens the status pipe for reading when it gets to it.
OpenPipe ==
    /\ Running /\ ~reader
    /\ reader' = TRUE
    /\ Same(<<pc, notified, cancelled, tries, store, answer, result>>)

\* SIGTERM cancels the context of a process that catches it and kills another.
Terminate ==
    /\ Running
    /\ IF notified
       THEN cancelled' = TRUE /\ UNCHANGED pc
       ELSE pc' = "killed" /\ UNCHANGED cancelled
    /\ Same(<<notified, reader, tries, store, answer, result>>)

Next == Process \/ OpenPipe \/ Terminate

(***************************************************************************)
(* The process goes on by itself: connecting, locks and pipe all have time *)
(* limits or end with other calls.  The host need not do anything.         *)
(***************************************************************************)
Spec == Init /\ [][Next]_vars /\ WF_vars(Process)

-----------------------------------------------------------------------------
(***************************************************************************)
(* PROPERTIES                                                              *)
(***************************************************************************)

\* Every variable holds a value of its kind.
TypeOK ==
    /\ impl \in {"go", "python"} /\ tool \in Tools /\ request \in Requests
    /\ config \in Config
    /\ pc \in Pcs
    /\ notified \in BOOLEAN /\ cancelled \in BOOLEAN /\ reader \in BOOLEAN
    /\ tries \in 0..MaxRetries - 1
    /\ store \in {"none", "open", "closed"}
    /\ answer \in Codes \union {"none"} /\ result \in Codes \union {"none"}

\* Two deployments with one configuration that both start work correlate the same
\* sources over the same positive window, when the sources are text and the window
\* fits a time.Duration; only a window that is null, true or a numeral of Python's
\* own, or a null database URL, is accepted by one of them alone.
EnginesAgree ==
    LET go == GoEngine(config) py == PyEngine(config) w == config.window IN
    config.sources \in {"text", "blank", "absent"} /\ w.n <= GoMaxSeconds =>
        /\ go # NoEngine /\ py # NoEngine => go = py /\ go.window > 0
        /\ (go = NoEngine) # (py = NoEngine) =>
               w.kind \in {"null", "lenient", "true"} \/ config.url = "null"

\* The connection is closed when the call is answered, on every path of errors and
\* panics; it is only left open by a Python window that no timedelta holds.
StoreIsReleased ==
    /\ pc \in {"return", "write", "exited", "failed"}
    /\ store = "open"
    => impl = "python" /\ Engine.window > PyMaxSeconds

\* A Go process that has reached its handler leaves a result, whether or not it is
\* signalled, the host reads its status or its handler panics, or says by its exit
\* code that it could not write one.
HandlerIsAnswered == notified ~> result # "none" \/ pc = "failed"
=============================================================================
