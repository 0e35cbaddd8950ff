----------------------------- MODULE ToolCallProofs -----------------------------
(***************************************************************************)
(* Theorems about ToolCall for all windows, limits and numbers of retries. *)
(***************************************************************************)
EXTENDS ToolCall, TLAPS

USE DEF call

-----------------------------------------------------------------------------
(***************************************************************************)
(* TYPES                                                                   *)
(***************************************************************************)

\* The initial state and every step keep the types: no more tries of the pipe than
\* SendStatus allows, and no answer or state outside the enumerated ones.
LEMMA TypeInductive ==
    /\ Init => TypeOK
    /\ TypeOK /\ [Next]_vars => TypeOK'
<1>1. ASSUME Init PROVE TypeOK
  <2>1. impl \in {"go", "python"} /\ tool \in Tools /\ request \in Requests /\ config \in Config
    BY <1>1 DEF Init
  <2>2. pc \in Pcs
    BY <1>1 DEF Init, Pcs
  <2>3. notified \in BOOLEAN /\ cancelled \in BOOLEAN /\ reader \in BOOLEAN
    BY <1>1 DEF Init
  <2>4. tries \in 0..MaxRetries - 1
    BY <1>1, CallAssumption DEF Init
  <2>5. store \in {"none", "open", "closed"}
        /\ answer \in Codes \union {"none"} /\ result \in Codes \union {"none"}
    BY <1>1 DEF Init
  <2> QED
    BY <2>1, <2>2, <2>3, <2>4, <2>5, Zenon DEF TypeOK
<1>2. ASSUME TypeOK, [Next]_vars PROVE TypeOK'
  <2> USE DEF Next, Process, Step, Return, Same, vars
  <2> USE DEF ReadArgs, FindTool, Invoke, CheckRequest, Configure, OpenStore, Migrate,
              BuildEngine, SendStatus, StartWork, Work, CloseStore, RecoverHandler,
              WriteResult, OpenPipe, Terminate
  <2>1. (impl \in {"go", "python"} /\ tool \in Tools /\ request \in Requests
           /\ config \in Config)'
    BY <1>2 DEF TypeOK
  <2>2. pc' \in Pcs
    BY <1>2 DEF TypeOK, Pcs
  <2>3. notified' \in BOOLEAN /\ cancelled' \in BOOLEAN /\ reader' \in BOOLEAN
    BY <1>2 DEF TypeOK
  <2>4. tries' \in 0..MaxRetries - 1
    <3>1. tries \in 0..MaxRetries - 1 /\ MaxRetries \in Nat \ {0}
      BY <1>2, CallAssumption DEF TypeOK
    <3>2. CASE tries' = tries + 1 /\ tries < MaxRetries - 1
      BY <3>1, <3>2
    <3>3. CASE tries' = tries
      BY <3>1, <3>3
    <3> QED
      BY <1>2, <3>2, <3>3
  <2>5. store' \in {"none", "open", "closed"}
    BY <1>2 DEF TypeOK
  <2>6. answer' \in Codes \union {"none"}
    BY <1>2 DEF TypeOK, Codes
  <2>7. result' \in Codes \union {"none"}
    BY <1>2 DEF TypeOK
  <2> QED
    BY <2>1, <2>2, <2>3, <2>4, <2>5, <2>6, <2>7, Zenon DEF TypeOK
<1> QED
  BY <1>1, <1>2

\* Every variable of a call keeps its type.
THEOREM TypeCorrect == Spec => []TypeOK
<1>1. Init => TypeOK
  BY TypeInductive
<1>2. TypeOK /\ [Next]_vars => TypeOK'
  BY TypeInductive
<1> QED
  BY <1>1, <1>2, PTL DEF Spec

-----------------------------------------------------------------------------
(***************************************************************************)
(* THE CONNECTION                                                          *)
(***************************************************************************)
\* The steps after which a later step of the handler closes an open store, and the
\* one that needs none.
HoldingPcs == {"migrate", "built", "status", "work", "working", "close", "killed"}

WindowTooLong == impl = "python" /\ Engine.window > PyMaxSeconds

StoreInv == store = "open" => pc \in HoldingPcs \/ WindowTooLong

\* What Engine computes depends on the call alone, which never changes.
LEMMA CallIsFixed == [Next]_vars => UNCHANGED call /\ (WindowTooLong => WindowTooLong')
<1> SUFFICES ASSUME [Next]_vars PROVE UNCHANGED call /\ (WindowTooLong => WindowTooLong')
  OBVIOUS
<1>1. UNCHANGED call
  BY DEF Next, Process, ReadArgs, FindTool, Invoke, CheckRequest, Configure, OpenStore,
         Migrate, BuildEngine, SendStatus, StartWork, Work, CloseStore, RecoverHandler,
         WriteResult, OpenPipe, Terminate, Same, vars
<1>2. WindowTooLong => WindowTooLong'
  BY <1>1 DEF WindowTooLong, Engine, GoEngine, PyEngine
<1> QED
  BY <1>1, <1>2

\* Every step of the process, of the host and of nobody keeps StoreInv.
LEMMA StoreInductive == StoreInv /\ [Next]_vars => StoreInv'
<1> SUFFICES ASSUME StoreInv, [Next]_vars PROVE StoreInv'
  OBVIOUS
<1>1. WindowTooLong => WindowTooLong'
  BY CallIsFixed
<1>2. CASE WindowTooLong
  BY <1>1, <1>2 DEF StoreInv
<1>3. CASE ~WindowTooLong
  <2> USE <1>3 DEF StoreInv, HoldingPcs, Step, Return, Same
  <2>1. CASE ReadArgs \/ FindTool \/ Invoke \/ CheckRequest \/ Configure
    BY <2>1 DEF ReadArgs, FindTool, Invoke, CheckRequest, Configure
  <2>2. CASE OpenStore
    BY <2>2 DEF OpenStore
  <2>3. CASE Migrate
    BY <2>3 DEF Migrate
  <2>4. CASE BuildEngine
    BY <2>4 DEF BuildEngine, WindowTooLong
  <2>5. CASE SendStatus \/ StartWork \/ Work
    BY <2>5 DEF SendStatus, StartWork, Work
  <2>6. CASE CloseStore \/ RecoverHandler \/ WriteResult
    BY <2>6 DEF CloseStore, RecoverHandler, WriteResult
  <2>7. CASE OpenPipe
    BY <2>7 DEF OpenPipe
  <2>8. CASE Terminate
    BY <2>8 DEF Terminate
  <2>9. CASE UNCHANGED vars
    BY <2>9 DEF vars
  <2> QED
    BY <2>1, <2>2, <2>3, <2>4, <2>5, <2>6, <2>7, <2>8, <2>9 DEF Next, Process
<1> QED
  BY <1>2, <1>3

\* When a call is answered its connection is closed, unless a Python window is too
\* long for a timedelta.
THEOREM ConnectionReleased == Spec => []StoreIsReleased
<1>1. Init => StoreInv
  BY DEF Init, StoreInv
<1>2. StoreInv /\ [Next]_vars => StoreInv'
  BY StoreInductive
<1>3. StoreInv => StoreIsReleased
  BY DEF StoreInv, StoreIsReleased, HoldingPcs, WindowTooLong
<1> QED
  BY <1>1, <1>2, <1>3, PTL DEF Spec

-----------------------------------------------------------------------------
(***************************************************************************)
(* CONFIGURATIONS                                                          *)
(***************************************************************************)
\* A window that fits a time.Duration does not wrap around.
LEMMA DurationIsExact ==
    ASSUME NEW s \in 1..GoMaxSeconds
    PROVE  GoDuration(s) = s
<1> DEFINE m == 2 * (GoMaxSeconds + 1)
           x == s + GoMaxSeconds + 1
<1>1. m \in Nat /\ m > 0 /\ x \in 0..m - 1
  BY CallAssumption
<1>2. ASSUME NEW a \in Nat, NEW b \in Nat, b > 0, a < b PROVE a % b = a
  BY <1>2, SMTT(30)
<1> HIDE DEF m, x
<1>3. x % m = x
  BY <1>1, <1>2
<1> QED
  BY <1>3, CallAssumption DEF GoDuration, m, x

\* For every window and every limit, two engines built from one configuration within
\* the schema's types and limits are the same, and only windows and URLs that the two
\* languages read by different rules give an engine to one of them alone.
THEOREM ConfigurationsAgree == Spec => []EnginesAgree
<1>1. ASSUME config \in Config PROVE EnginesAgree
  <2> DEFINE w == config.window
             go == GoEngine(config)
             py == PyEngine(config)
  <2> SUFFICES ASSUME config.sources \in {"text", "blank", "absent"}, w.n <= GoMaxSeconds
               PROVE  /\ go # NoEngine /\ py # NoEngine => go = py /\ go.window > 0
                      /\ (go = NoEngine) # (py = NoEngine) =>
                             w.kind \in {"null", "lenient", "true"} \/ config.url = "null"
    BY DEF EnginesAgree
  <2>1. w \in WindowValue /\ config.url \in {"text", "blank", "absent", "null"}
    BY <1>1 DEF Config
  <2>2. w.n \in Int
        /\ w.kind \in {"number", "text", "lenient", "absent", "null", "true", "list"}
    <3>1. CASE w \in [kind: {"number", "text", "lenient"}, n: WindowNumbers]
      <4>1. w.n \in WindowNumbers /\ w.kind \in {"number", "text", "lenient"}
        BY <3>1
      <4> QED
        BY <4>1, CallAssumption
    <3>2. CASE w \in [kind: {"absent", "null", "true", "list"}, n: {0}]
      BY <3>2
    <3> QED
      BY <2>1, <3>1, <3>2 DEF WindowValue
  <2>3. GoSources(config.sources) = PySources(config.sources)
    BY DEF GoSources, PySources
  <2>4. GoSeconds(w) \in Int /\ GoSeconds(w) <= GoMaxSeconds /\ PySeconds(w) \in Int
    BY <2>2, CallAssumption DEF GoSeconds, PySeconds
  <2>5. \/ GoSeconds(w) = PySeconds(w)
        \/ w.kind \in {"null", "lenient", "true"} /\ ~(GoSeconds(w) > 0 /\ PySeconds(w) > 0)
    BY <2>2, CallAssumption DEF GoSeconds, PySeconds
  <2>6. GoSeconds(w) > 0 => GoDuration(GoSeconds(w)) = GoSeconds(w)
    BY <2>4, DurationIsExact, CallAssumption
  <2>7. go # NoEngine /\ py # NoEngine => go = py /\ go.window > 0
    BY <2>1, <2>3, <2>4, <2>5, <2>6 DEF GoEngine, PyEngine, NoEngine
  <2>8. (go = NoEngine) # (py = NoEngine) =>
            w.kind \in {"null", "lenient", "true"} \/ config.url = "null"
    BY <2>1, <2>3, <2>4, <2>5, <2>6 DEF GoEngine, PyEngine, NoEngine
  <2> QED
    BY <2>7, <2>8
<1>2. Spec => []TypeOK
  BY TypeCorrect
<1>3. TypeOK => EnginesAgree
  BY <1>1 DEF TypeOK
<1> QED
  BY <1>2, <1>3, PTL
=============================================================================
