------------------------- MODULE ToolInvocationProofs -------------------------
(***************************************************************************)
(* Proofs about the calls of a tool, for all parameter types, arguments,   *)
(* results and goroutines: what a caller of the LLM is answered, that a    *)
(* schema is honoured, that no content is lost, and that the transports    *)
(* agree.                                                                  *)
(*                                                                         *)
(* No step of a transport reads what the other wrote, so the invariant     *)
(* says that each variable is, at each label, what the call alone makes of *)
(* it.  What is left then is about data: types and values of any depth.    *)
(***************************************************************************)
EXTENDS ToolInvocation, NaturalsInduction, WellFoundedInduction, FiniteSetTheorems, TLAPS

-----------------------------------------------------------------------------
(***************************************************************************)
(* The client of the LLM.  No identifier is compared, so the argument is   *)
(* about what can be on the wire: while the connection is open, whatever   *)
(* the host still owes or has sent belongs to the one caller that holds the*)
(* mutex, and when nobody holds it there is nothing.  A read that fails    *)
(* leaves a request behind, but only on a connection that is lost and on   *)
(* which nothing is sent.                                                  *)
(***************************************************************************)

\* The mutex is held from the write to the read.
MutexHeld == \A c \in Callers : stage[c] = "sent" <=> mutex = c

\* What is on the wire belongs to the holder of the mutex.
WireIsHolders ==
    /\ conn = "open" /\ mutex = NoCaller => requests = {} /\ lines = <<>>
    /\ \A c \in Callers : mutex = c =>
          \/ requests \subseteq {id[c]} /\ lines = <<>>
          \/ requests = {} /\ lines = <<id[c]>>

\* No reply before a call has one.
NoEarlyReply == \A c \in Callers : stage[c] # "returned" => reply[c] = 0

LlmInv == LlmTypeOK /\ MutexHeld /\ WireIsHolders /\ NoEarlyReply /\ OwnAnswer

\* The invariant holds before any call.
LEMMA LlmInitInv == LlmInit => LlmInv
BY CallersAssumption
   DEF LlmInit, LlmInv, LlmTypeOK, MutexHeld, WireIsHolders, NoEarlyReply, OwnAnswer

\* A caller that takes an identifier is idle: no reply and no request is its own yet.
LEMMA StartCallInv ==
    ASSUME LlmInv, NEW c \in Callers, StartCall(c)
    PROVE  LlmInv'
<1> USE DEF LlmInv, StartCall
<1>1. LlmTypeOK'
  BY DEF LlmTypeOK
<1>2. MutexHeld'
  BY DEF LlmTypeOK, MutexHeld
<1>3. WireIsHolders'
  BY DEF LlmTypeOK, MutexHeld, WireIsHolders
<1>4. NoEarlyReply' /\ OwnAnswer'
  BY DEF LlmTypeOK, NoEarlyReply, OwnAnswer
<1> QED BY <1>1, <1>2, <1>3, <1>4

\* A call is sent when nobody holds the mutex and the wire is empty.
LEMMA SendInv ==
    ASSUME LlmInv, NEW c \in Callers, Send(c)
    PROVE  LlmInv'
<1> USE CallersAssumption DEF LlmInv, Send
<1>1. LlmTypeOK'
  BY DEF LlmTypeOK
<1>2. MutexHeld'
  BY DEF LlmTypeOK, MutexHeld
<1>3. WireIsHolders'
  BY DEF LlmTypeOK, WireIsHolders
<1>4. NoEarlyReply' /\ OwnAnswer'
  BY DEF LlmTypeOK, NoEarlyReply, OwnAnswer
<1> QED BY <1>1, <1>2, <1>3, <1>4

\* A call that cannot be sent changes nothing but its own return.
LEMMA SendFailsInv ==
    ASSUME LlmInv, NEW c \in Callers, SendFails(c)
    PROVE  LlmInv'
<1> USE CallersAssumption DEF LlmInv, SendFails, Return
<1>1. LlmTypeOK'
  BY DEF LlmTypeOK
<1>2. MutexHeld' /\ WireIsHolders'
  BY DEF LlmTypeOK, MutexHeld, WireIsHolders
<1>3. NoEarlyReply' /\ OwnAnswer'
  BY DEF LlmTypeOK, NoEarlyReply, OwnAnswer
<1> QED BY <1>1, <1>2, <1>3

\* The line that is read is the holder's, and no other is left.
LEMMA ReceiveInv ==
    ASSUME LlmInv, NEW c \in Callers, Receive(c)
    PROVE  LlmInv'
<1> USE CallersAssumption DEF LlmInv, Receive, Return
<1>1. mutex = c /\ requests = {} /\ lines = <<id[c]>>
  BY DEF MutexHeld, WireIsHolders
<1>2. PICK a \in {0, id[c]} :
         /\ stage' = [stage EXCEPT ![c] = "returned"]
         /\ reply' = [reply EXCEPT ![c] = a]
  <2>1. Head(lines) = id[c]
    BY <1>1
  <2>2. \E a \in {0, Head(lines)} : Return(c, a)
    OBVIOUS
  <2> QED BY <2>1, <2>2
<1>3. lines' = <<>> /\ requests' = {}
  BY <1>1
<1>4. LlmTypeOK'
  BY <1>2, <1>3 DEF LlmTypeOK
<1>5. MutexHeld'
  BY <1>1, <1>2 DEF LlmTypeOK, MutexHeld
<1>6. WireIsHolders'
  BY <1>3 DEF WireIsHolders
<1>7. NoEarlyReply' /\ OwnAnswer'
  BY <1>2 DEF LlmTypeOK, NoEarlyReply, OwnAnswer
<1> QED BY <1>4, <1>5, <1>6, <1>7

\* A read fails only on a lost connection.
LEMMA ReceiveFailsInv ==
    ASSUME LlmInv, NEW c \in Callers, ReceiveFails(c)
    PROVE  LlmInv'
<1> USE CallersAssumption DEF LlmInv, ReceiveFails, Return
<1>1. LlmTypeOK'
  BY DEF LlmTypeOK
<1>2. MutexHeld'
  BY DEF LlmTypeOK, MutexHeld
<1>3. WireIsHolders'
  BY DEF WireIsHolders
<1>4. NoEarlyReply' /\ OwnAnswer'
  BY DEF LlmTypeOK, NoEarlyReply, OwnAnswer
<1> QED BY <1>1, <1>2, <1>3, <1>4

\* The host answers the holder's request, the only one there is.
LEMMA HostAnswersInv ==
    ASSUME LlmInv, HostAnswers
    PROVE  LlmInv'
<1> USE CallersAssumption DEF LlmInv, HostAnswers
<1>1. PICK r \in requests : requests' = requests \ {r} /\ lines' = Append(lines, r)
  OBVIOUS
<1>2. LlmTypeOK'
  BY <1>1 DEF LlmTypeOK
<1>3. WireIsHolders'
  <2>1. mutex # NoCaller
    BY <1>1 DEF WireIsHolders
  <2>2. PICK c \in Callers : mutex = c
    BY <2>1 DEF LlmTypeOK
  <2>3. r = id[c] /\ requests = {r} /\ lines = <<>>
    BY <1>1, <2>2 DEF WireIsHolders
  <2>4. requests' = {} /\ lines' = <<id[c]>>
    BY <1>1, <2>3
  <2> QED BY <2>1, <2>2, <2>4 DEF WireIsHolders
<1>4. MutexHeld' /\ NoEarlyReply' /\ OwnAnswer'
  BY DEF MutexHeld, NoEarlyReply, OwnAnswer
<1> QED BY <1>2, <1>3, <1>4

\* Losing the connection at either end leaves the callers as they are.
LEMMA LoseConnectionInv ==
    ASSUME LlmInv, HostHangsUp \/ CloseClient
    PROVE  LlmInv'
BY DEF LlmInv, HostHangsUp, CloseClient, LlmTypeOK, MutexHeld, WireIsHolders,
       NoEarlyReply, OwnAnswer

\* Every step keeps the invariant.
LEMMA LlmStepInv == LlmInv /\ [LlmNext]_llm => LlmInv'
<1> SUFFICES ASSUME LlmInv, [LlmNext]_llm PROVE LlmInv'
  OBVIOUS
<1>1. CASE \E c \in Callers : StartCall(c) \/ CallStep(c)
  BY <1>1, StartCallInv, SendInv, SendFailsInv, ReceiveInv, ReceiveFailsInv DEF CallStep
<1>2. CASE HostAnswers
  BY <1>2, HostAnswersInv
<1>3. CASE HostHangsUp \/ CloseClient
  BY <1>3, LoseConnectionInv
<1>4. CASE UNCHANGED llm
  BY <1>4 DEF llm, LlmInv, LlmTypeOK, MutexHeld, WireIsHolders, NoEarlyReply, OwnAnswer
<1> QED BY <1>1, <1>2, <1>3, <1>4 DEF LlmNext

\* Every variable of the client and of the connection keeps its type (ipc.go:15-20).
THEOREM LlmTypeCorrect == LlmSpec => []LlmTypeOK
<1>1. LlmInv => LlmTypeOK
  BY DEF LlmInv
<1> QED BY <1>1, LlmInitInv, LlmStepInv, PTL DEF LlmSpec

\* A caller is given the answer to its own request or an error (ipc.go:82-97):
\* the mutex alone pairs requests with lines.
THEOREM AnswersArePaired == LlmSpec => []OwnAnswer
<1>1. LlmInv => OwnAnswer
  BY DEF LlmInv
<1> QED BY <1>1, LlmInitInv, LlmStepInv, PTL DEF LlmSpec

-----------------------------------------------------------------------------
(***************************************************************************)
(* Recursion over data.  A set of things with a depth has one that is least*)
(* deep, so functions may be defined, and facts proved, from the less deep *)
(* to the deeper.                                                          *)
(***************************************************************************)

\* A nonempty set of numbers has a least one.
LEMMA LeastNumber ==
    ASSUME NEW N \in SUBSET Nat, N # {}
    PROVE  \E n \in N : \A m \in N : n <= m
<1>1. IsWellFoundedOn(OpToRel(<, Nat), Nat)
  BY NatLessThanWellFounded
<1>2. \E n \in N : \A m \in N : ~(<<m, n>> \in OpToRel(<, Nat))
  BY <1>1, WFMin, Zenon
<1>3. PICK n \in N : \A m \in N : ~(<<m, n>> \in OpToRel(<, Nat))
  BY <1>2
<1>4. ASSUME NEW m \in N PROVE n <= m
  <2>1. ~(<<m, n>> \in {p \in Nat \X Nat : p[1] < p[2]})
    BY <1>3 DEF OpToRel
  <2> QED BY <2>1
<1> QED BY <1>4

\* A nonempty set of things with a depth has one that is least deep.
LEMMA Shallowest ==
    ASSUME NEW S, NEW D \in [S -> Nat], NEW T \in SUBSET S, T # {}
    PROVE  \E x \in T : \A y \in T : D[x] <= D[y]
<1>1. {D[x] : x \in T} \in SUBSET Nat /\ {D[x] : x \in T} # {}
  OBVIOUS
<1>2. PICK n \in {D[x] : x \in T} : \A m \in {D[x] : x \in T} : n <= m
  BY <1>1, LeastNumber
<1> QED BY <1>2

\* A definition by recursion: the parts of a thing are less deep, and Rule says
\* what a function does to a thing given what it does to the parts.
IsRecursion(S, D, X, Parts, Rule) ==
    /\ D \in [S -> Nat]
    /\ \A x \in S : \A y \in Parts[x] : y \in S /\ D[y] < D[x]
    /\ \A x \in S : \A h \in [Parts[x] -> X] : Rule[x][h] \in X

IsDefinedBy(f, S, X, Parts, Rule) ==
    f \in [S -> X] /\ \A x \in S : f[x] = Rule[x][[y \in Parts[x] |-> f[y]]]

\* There is a function that such a definition defines.
LEMMA Recursion ==
    ASSUME NEW S, NEW D, NEW X, NEW Parts, NEW Rule, IsRecursion(S, D, X, Parts, Rule)
    PROVE  \E f : IsDefinedBy(f, S, X, Parts, Rule)
<1> USE DEF IsRecursion
<1> DEFINE Below(n) == {y \in S : D[y] < n}
<1> DEFINE E(f, x) == Rule[x][[y \in Parts[x] |-> f[y]]]
<1> DEFINE Fits(f, n) == f \in [Below(n) -> X] /\ \A x \in Below(n) : f[x] = E(f, x)
<1>0. \A x \in S : D[x] \in Nat
  OBVIOUS
<1>1. ASSUME NEW x \in S, NEW f, NEW g, \A y \in Parts[x] : f[y] = g[y]
      PROVE  E(f, x) = E(g, x)
  <2>1. [y \in Parts[x] |-> f[y]] = [y \in Parts[x] |-> g[y]]
    BY <1>1
  <2> QED BY <2>1
<1>2. ASSUME NEW x \in S, NEW f, \A y \in Parts[x] : f[y] \in X
      PROVE  E(f, x) \in X
  <2>1. [y \in Parts[x] |-> f[y]] \in [Parts[x] -> X]
    BY <1>2
  <2> QED BY <2>1
<1> HIDE DEF E
\* Two approximations agree where both are defined.
<1>3. ASSUME NEW m \in Nat, NEW n \in Nat, NEW f, NEW g, Fits(f, m), Fits(g, n),
             NEW x \in Below(m) \intersect Below(n)
      PROVE  f[x] = g[x]
  <2> DEFINE T == {y \in Below(m) \intersect Below(n) : f[y] # g[y]}
  <2> SUFFICES ASSUME T # {} PROVE FALSE
    OBVIOUS
  <2>1. PICK y \in T : \A z \in T : D[y] <= D[z]
    <3>1. T \in SUBSET S
      OBVIOUS
    <3> HIDE DEF T
    <3> QED BY <3>1, Shallowest
  <2>2. \A z \in Parts[y] : f[z] = g[z]
    BY <2>1, <1>0
  <2>3. E(f, y) = E(g, y)
    BY <1>1, <2>2
  <2> QED BY <2>1, <2>3, <1>3
\* There is one for every depth.
<1>4. \A n \in Nat : \E f : Fits(f, n)
  <2> DEFINE Has(n) == \E f : Fits(f, n)
  <2> DEFINE T == {n \in Nat : ~Has(n)}
  <2> SUFFICES ASSUME T # {} PROVE FALSE
    OBVIOUS
  <2> HIDE DEF Has
  <2>1. PICK n \in T : \A m \in T : n <= m
    <3>1. T \in SUBSET Nat
      OBVIOUS
    <3> HIDE DEF T
    <3> QED BY <3>1, LeastNumber
  <2>2. n # 0
    <3>1. Below(0) = {}
      BY <1>0
    <3>2. Fits([x \in {} |-> x], 0)
      BY <3>1
    <3> QED BY <3>2, <2>1 DEF Has
  <2>3. n - 1 \in Nat /\ Has(n - 1)
    BY <2>1, <2>2
  <2>4. PICK g : Fits(g, n - 1)
    BY <2>3 DEF Has
  <2> DEFINE f == [x \in Below(n) |-> E(g, x)]
  <2>5. \A x \in Below(n) : \A y \in Parts[x] : y \in Below(n - 1) /\ y \in Below(n)
    BY <1>0, <2>3
  <2>6. \A x \in Below(n) : \A y \in Parts[x] : g[y] \in X /\ f[y] = g[y]
    BY <2>4, <2>5
  <2>7. \A x \in Below(n) : E(g, x) \in X /\ E(f, x) = E(g, x)
    <3> HIDE DEF f
    <3> QED BY <2>6, <1>1, <1>2
  <2>8. Fits(f, n)
    BY <2>7
  <2> QED BY <2>1, <2>8 DEF Has
<1> DEFINE A(n) == CHOOSE f : Fits(f, n)
<1>5. \A n \in Nat : Fits(A(n), n)
  <2> HIDE DEF Fits
  <2> QED BY <1>4
<1> HIDE DEF A
<1> DEFINE f == [x \in S |-> A(D[x] + 1)[x]]
<1>6. \A x \in S : x \in Below(D[x] + 1) /\ D[x] + 1 \in Nat
  BY <1>0
<1>7. \A x \in S : \A y \in Parts[x] : A(D[x] + 1)[y] = f[y]
  <2> SUFFICES ASSUME NEW x \in S, NEW y \in Parts[x] PROVE A(D[x] + 1)[y] = A(D[y] + 1)[y]
    OBVIOUS
  <2>1. y \in Below(D[x] + 1)
    BY <1>0
  <2> HIDE DEF Fits, Below
  <2> QED BY <2>1, <1>3, <1>5, <1>6
<1>8. \A x \in S : f[x] \in X /\ f[x] = E(f, x)
  <2> SUFFICES ASSUME NEW x \in S PROVE f[x] \in X /\ f[x] = E(f, x)
    OBVIOUS
  <2>1. f[x] \in X /\ f[x] = E(A(D[x] + 1), x)
    BY <1>5, <1>6
  <2>2. E(A(D[x] + 1), x) = E(f, x)
    <3> HIDE DEF f
    <3> QED BY <1>1, <1>7
  <2> QED BY <2>1, <2>2
<1>9. f \in [S -> X]
  BY <1>8
<1> QED BY <1>8, <1>9 DEF E, IsDefinedBy

-----------------------------------------------------------------------------
(***************************************************************************)
(* The recursive functions of ToolParameters satisfy the equations that    *)
(* define them: each looks only at what is less deep.                      *)
(***************************************************************************)

\* One step of GoTypeToSchema, in terms of the schemas of less deep types.
SchemaStep(f, t) ==
    CASE t.kind \in {"string", "integer", "number", "boolean"} -> [type |-> t.kind]
      [] t.kind = "slice"               -> [type |-> "array", items |-> f[t.elem]]
      [] t.kind \in {"map", "artifact"} -> AnyObject
      [] t.kind = "struct"              -> StructSchema(f, t)
      [] t.kind = "pointer"             -> f[t.elem]
      [] OTHER                          -> [type |-> "string"]

\* The parts of a type are types that are less deep, and a pointer points to no pointer.
LEMMA TypeShapes ==
    ASSUME NEW t \in GoTypes
    PROVE  /\ TypeDepth[t] \in Nat
           /\ Deref(t) \in GoTypes /\ TypeDepth[Deref(t)] <= TypeDepth[t]
           /\ Deref(t).kind # "pointer"
           /\ t.kind \in {"slice", "array", "map", "pointer"} => t.elem \in ShallowerTypes(t)
           /\ t.kind = "struct" => \A n \in DOMAIN t.fields :
                 /\ t.fields[n].type \in ShallowerTypes(t)
                 /\ Deref(t.fields[n].type) \in ShallowerTypes(t)
<1>1. /\ IsGoType(t) /\ TypeDepth[t] \in Nat
      /\ \A u \in GoTypes : TypeDepth[u] \in Nat /\ IsGoType(u)
  BY TypesAssumption
<1>2. t.kind \in {"slice", "array", "map", "pointer"} => t.elem \in ShallowerTypes(t)
  BY <1>1 DEF IsGoType
<1>3. \A u \in GoTypes :
         Deref(u) \in GoTypes /\ TypeDepth[Deref(u)] <= TypeDepth[u] /\ Deref(u).kind # "pointer"
  BY <1>1 DEF Deref, IsPointer, IsGoType, ShallowerTypes
<1>4. ASSUME t.kind = "struct", NEW n \in DOMAIN t.fields
      PROVE  t.fields[n].type \in ShallowerTypes(t) /\ Deref(t.fields[n].type) \in ShallowerTypes(t)
  <2>1. t.fields[n].type \in ShallowerTypes(t)
    BY <1>1, <1>4 DEF IsGoType
  <2> QED BY <2>1, <1>1, <1>3 DEF ShallowerTypes
<1> QED BY <1>1, <1>2, <1>3, <1>4

\* A schema is made of the schemas of less deep types.
LEMMA SchemaStepIsLocal ==
    ASSUME NEW t \in GoTypes, NEW f, NEW g, \A u \in ShallowerTypes(t) : f[u] = g[u]
    PROVE  SchemaStep(f, t) = SchemaStep(g, t)
<1>1. CASE t.kind = "struct"
  <2>1. \A n \in DOMAIN t.fields : FieldSchema(f, t.fields[n]) = FieldSchema(g, t.fields[n])
    BY <1>1, TypeShapes DEF FieldSchema
  <2>2. StructSchema(f, t) = StructSchema(g, t)
    BY <2>1 DEF StructSchema
  <2> QED BY <1>1, <2>2 DEF SchemaStep
<1>2. CASE t.kind # "struct"
  BY <1>2, TypeShapes DEF SchemaStep
<1> QED BY <1>1, <1>2

\* There are schemas: approximations up to each depth agree, and together they are one
\* function.  No set holds every schema beforehand, so Recursion does not apply.
LEMMA SchemaExists == \E f : f = [x \in GoTypes |-> SchemaStep(f, x)]
<1> DEFINE Below(n) == {x \in GoTypes : TypeDepth[x] < n}
<1> DEFINE Fits(f, n) == f = [x \in Below(n) |-> SchemaStep(f, x)]
<1>0. \A x \in GoTypes : TypeDepth[x] \in Nat
  BY TypesAssumption
<1>1. \A x \in GoTypes : \A y \in ShallowerTypes(x) : y \in GoTypes /\ TypeDepth[y] < TypeDepth[x]
  BY DEF ShallowerTypes
<1>2. ASSUME NEW m \in Nat, NEW n \in Nat, NEW f, NEW g, Fits(f, m), Fits(g, n),
             NEW x \in Below(m) \intersect Below(n)
      PROVE  f[x] = g[x]
  <2> DEFINE T == {y \in Below(m) \intersect Below(n) : f[y] # g[y]}
  <2> SUFFICES ASSUME T # {} PROVE FALSE
    OBVIOUS
  <2>1. PICK y \in T : \A z \in T : TypeDepth[y] <= TypeDepth[z]
    <3>1. T \in SUBSET GoTypes
      OBVIOUS
    <3> HIDE DEF T
    <3> QED BY <3>1, Shallowest, TypesAssumption
  <2>2. \A z \in ShallowerTypes(y) : f[z] = g[z]
    BY <2>1, <1>0, <1>1
  <2>3. SchemaStep(f, y) = SchemaStep(g, y)
    BY <2>1, <2>2, SchemaStepIsLocal
  <2>4. f[y] = SchemaStep(f, y) /\ g[y] = SchemaStep(g, y)
    BY <2>1, <1>2, Zenon
  <2> QED BY <2>1, <2>3, <2>4
<1>3. \A n \in Nat : \E f : Fits(f, n)
  <2> DEFINE Has(n) == \E f : Fits(f, n)
  <2> DEFINE T == {n \in Nat : ~Has(n)}
  <2> SUFFICES ASSUME T # {} PROVE FALSE
    OBVIOUS
  <2> HIDE DEF Has
  <2>1. PICK n \in T : \A m \in T : n <= m
    <3>1. T \in SUBSET Nat
      OBVIOUS
    <3> HIDE DEF T
    <3> QED BY <3>1, LeastNumber
  <2>2. n # 0
    <3>1. Below(0) = {}
      BY <1>0
    <3>2. Fits([x \in {} |-> x], 0)
      BY <3>1
    <3> QED BY <3>2, <2>1 DEF Has
  <2>3. n - 1 \in Nat /\ Has(n - 1)
    BY <2>1, <2>2
  <2>4. PICK g : Fits(g, n - 1)
    BY <2>3 DEF Has
  <2> DEFINE f == [x \in Below(n) |-> SchemaStep(g, x)]
  <2>5. \A x \in Below(n) : \A y \in ShallowerTypes(x) : y \in Below(n - 1) /\ y \in Below(n)
    BY <1>0, <1>1, <2>1, <2>3
  <2>6. \A y \in Below(n - 1) : g[y] = SchemaStep(g, y)
    BY <2>4, Zenon
  <2>7. \A x \in Below(n) : \A y \in ShallowerTypes(x) : f[y] = g[y]
    BY <2>5, <2>6
  <2>8. \A x \in Below(n) : SchemaStep(f, x) = SchemaStep(g, x)
    <3> HIDE DEF f
    <3> QED BY <2>7, SchemaStepIsLocal
  <2>9. Fits(f, n)
    BY <2>8
  <2> QED BY <2>1, <2>9 DEF Has
<1> DEFINE A(n) == CHOOSE f : Fits(f, n)
<1>4. \A n \in Nat : Fits(A(n), n)
  <2> HIDE DEF Fits
  <2> QED BY <1>3
<1> HIDE DEF A
<1> DEFINE f == [x \in GoTypes |-> A(TypeDepth[x] + 1)[x]]
<1>5. \A x \in GoTypes : x \in Below(TypeDepth[x] + 1) /\ TypeDepth[x] + 1 \in Nat
  BY <1>0
<1>6. \A x \in GoTypes : \A y \in ShallowerTypes(x) : A(TypeDepth[x] + 1)[y] = f[y]
  <2> SUFFICES ASSUME NEW x \in GoTypes, NEW y \in ShallowerTypes(x)
               PROVE  A(TypeDepth[x] + 1)[y] = A(TypeDepth[y] + 1)[y]
    BY <1>1
  <2>1. y \in Below(TypeDepth[x] + 1) /\ y \in GoTypes
    BY <1>0, <1>1
  <2> HIDE DEF Fits, Below
  <2> QED BY <2>1, <1>2, <1>4, <1>5
<1>7. \A x \in GoTypes : f[x] = SchemaStep(f, x)
  <2> SUFFICES ASSUME NEW x \in GoTypes PROVE f[x] = SchemaStep(f, x)
    OBVIOUS
  <2>1. A(TypeDepth[x] + 1)[x] = SchemaStep(A(TypeDepth[x] + 1), x)
    BY <1>4, <1>5, Zenon
  <2>2. SchemaStep(A(TypeDepth[x] + 1), x) = SchemaStep(f, x)
    <3> HIDE DEF f
    <3> QED BY <1>6, SchemaStepIsLocal
  <2> QED BY <2>1, <2>2
<1>8. f = [x \in GoTypes |-> SchemaStep(f, x)]
  BY <1>7
<1> QED BY <1>8

\* The schema of a type is what the code makes of the schemas of its parts.
LEMMA SchemaUnfolds == GoTypeToSchema = [t \in GoTypes |-> SchemaStep(GoTypeToSchema, t)]
BY SchemaExists DEF GoTypeToSchema, SchemaStep

\* The parts of a value are values that are less deep.
LEMMA ValueShapes ==
    ASSUME NEW v \in JSONValues
    PROVE  /\ ValueDepth[v] \in Nat
           /\ v.json \in {"null", "boolean", "number", "string", "array", "object"}
           /\ v.json = "number" => v.n \in NumberClass /\ v = [json |-> "number", n |-> v.n]
           /\ v.json = "string" =>
                 /\ v.holds \in Seq(JSONValues)
                 /\ \A i \in DOMAIN v.holds : v.holds[i] \in ShallowerValues(v)
           /\ v.json = "array" =>
                 /\ v = [json |-> "array", items |-> v.items]
                 /\ v.items = [i \in DOMAIN v.items |-> v.items[i]]
                 /\ \A i \in DOMAIN v.items : v.items[i] \in ShallowerValues(v)
           /\ v.json = "object" =>
                 /\ v = [json |-> "object", props |-> v.props]
                 /\ v.props = [n \in DOMAIN v.props |-> v.props[n]]
                 /\ \A n \in DOMAIN v.props : v.props[n] \in ShallowerValues(v)
<1>1. IsJSON(v) /\ ValueDepth[v] \in Nat
  BY ValuesAssumption
<1>2. ShallowerValues(v) \subseteq JSONValues
  BY DEF ShallowerValues
<1>3. ASSUME NEW s \in Seq(ShallowerValues(v))
      PROVE  /\ s \in Seq(JSONValues)
             /\ s = [i \in DOMAIN s |-> s[i]]
             /\ \A i \in DOMAIN s : s[i] \in ShallowerValues(v)
  BY <1>2
<1> QED BY <1>1, <1>3 DEF IsJSON

\* One step of Parsed, in terms of what is made of less deep values.
ParsedStep(f, v) ==
    CASE v.json = "number" -> [json |-> "number", n |-> ParsedNumber(v.n)]
      [] v.json = "array"  ->
            [json |-> "array", items |-> [i \in DOMAIN v.items |-> f[v.items[i]]]]
      [] v.json = "object" ->
            [json |-> "object", props |-> [n \in DOMAIN v.props |-> f[v.props[n]]]]
      [] OTHER             -> v

\* A parsed value is made of the parsed parts of the value.
LEMMA ParsedStepIsLocal ==
    ASSUME NEW v \in JSONValues, NEW f, NEW g, \A w \in ShallowerValues(v) : f[w] = g[w]
    PROVE  ParsedStep(f, v) = ParsedStep(g, v)
BY ValueShapes DEF ParsedStep

\* Every value can be parsed: the argument is that of SchemaExists.
LEMMA ParsedExists == \E f : f = [x \in JSONValues |-> ParsedStep(f, x)]
<1> DEFINE Below(n) == {x \in JSONValues : ValueDepth[x] < n}
<1> DEFINE Fits(f, n) == f = [x \in Below(n) |-> ParsedStep(f, x)]
<1>0. \A x \in JSONValues : ValueDepth[x] \in Nat
  BY ValuesAssumption
<1>1. \A x \in JSONValues : \A y \in ShallowerValues(x) : y \in JSONValues /\ ValueDepth[y] < ValueDepth[x]
  BY DEF ShallowerValues
<1>2. ASSUME NEW m \in Nat, NEW n \in Nat, NEW f, NEW g, Fits(f, m), Fits(g, n),
             NEW x \in Below(m) \intersect Below(n)
      PROVE  f[x] = g[x]
  <2> DEFINE T == {y \in Below(m) \intersect Below(n) : f[y] # g[y]}
  <2> SUFFICES ASSUME T # {} PROVE FALSE
    OBVIOUS
  <2>1. PICK y \in T : \A z \in T : ValueDepth[y] <= ValueDepth[z]
    <3>1. T \in SUBSET JSONValues
      OBVIOUS
    <3> HIDE DEF T
    <3> QED BY <3>1, Shallowest, ValuesAssumption
  <2>2. \A z \in ShallowerValues(y) : f[z] = g[z]
    BY <2>1, <1>0, <1>1
  <2>3. ParsedStep(f, y) = ParsedStep(g, y)
    BY <2>1, <2>2, ParsedStepIsLocal
  <2>4. f[y] = ParsedStep(f, y) /\ g[y] = ParsedStep(g, y)
    BY <2>1, <1>2, Zenon
  <2> QED BY <2>1, <2>3, <2>4
<1>3. \A n \in Nat : \E f : Fits(f, n)
  <2> DEFINE Has(n) == \E f : Fits(f, n)
  <2> DEFINE T == {n \in Nat : ~Has(n)}
  <2> SUFFICES ASSUME T # {} PROVE FALSE
    OBVIOUS
  <2> HIDE DEF Has
  <2>1. PICK n \in T : \A m \in T : n <= m
    <3>1. T \in SUBSET Nat
      OBVIOUS
    <3> HIDE DEF T
    <3> QED BY <3>1, LeastNumber
  <2>2. n # 0
    <3>1. Below(0) = {}
      BY <1>0
    <3>2. Fits([x \in {} |-> x], 0)
      BY <3>1
    <3> QED BY <3>2, <2>1 DEF Has
  <2>3. n - 1 \in Nat /\ Has(n - 1)
    BY <2>1, <2>2
  <2>4. PICK g : Fits(g, n - 1)
    BY <2>3 DEF Has
  <2> DEFINE f == [x \in Below(n) |-> ParsedStep(g, x)]
  <2>5. \A x \in Below(n) : \A y \in ShallowerValues(x) : y \in Below(n - 1) /\ y \in Below(n)
    BY <1>0, <1>1, <2>1, <2>3
  <2>6. \A y \in Below(n - 1) : g[y] = ParsedStep(g, y)
    BY <2>4, Zenon
  <2>7. \A x \in Below(n) : \A y \in ShallowerValues(x) : f[y] = g[y]
    BY <2>5, <2>6
  <2>8. \A x \in Below(n) : ParsedStep(f, x) = ParsedStep(g, x)
    <3> HIDE DEF f
    <3> QED BY <2>7, ParsedStepIsLocal
  <2>9. Fits(f, n)
    BY <2>8
  <2> QED BY <2>1, <2>9 DEF Has
<1> DEFINE A(n) == CHOOSE f : Fits(f, n)
<1>4. \A n \in Nat : Fits(A(n), n)
  <2> HIDE DEF Fits
  <2> QED BY <1>3
<1> HIDE DEF A
<1> DEFINE f == [x \in JSONValues |-> A(ValueDepth[x] + 1)[x]]
<1>5. \A x \in JSONValues : x \in Below(ValueDepth[x] + 1) /\ ValueDepth[x] + 1 \in Nat
  BY <1>0
<1>6. \A x \in JSONValues : \A y \in ShallowerValues(x) : A(ValueDepth[x] + 1)[y] = f[y]
  <2> SUFFICES ASSUME NEW x \in JSONValues, NEW y \in ShallowerValues(x)
               PROVE  A(ValueDepth[x] + 1)[y] = A(ValueDepth[y] + 1)[y]
    BY <1>1
  <2>1. y \in Below(ValueDepth[x] + 1) /\ y \in JSONValues
    BY <1>0, <1>1
  <2> HIDE DEF Fits, Below
  <2> QED BY <2>1, <1>2, <1>4, <1>5
<1>7. \A x \in JSONValues : f[x] = ParsedStep(f, x)
  <2> SUFFICES ASSUME NEW x \in JSONValues PROVE f[x] = ParsedStep(f, x)
    OBVIOUS
  <2>1. A(ValueDepth[x] + 1)[x] = ParsedStep(A(ValueDepth[x] + 1), x)
    BY <1>4, <1>5, Zenon
  <2>2. ParsedStep(A(ValueDepth[x] + 1), x) = ParsedStep(f, x)
    <3> HIDE DEF f
    <3> QED BY <1>6, ParsedStepIsLocal
  <2> QED BY <2>1, <2>2
<1>8. f = [x \in JSONValues |-> ParsedStep(f, x)]
  BY <1>7
<1> QED BY <1>8

\* A parsed value is what the parser makes of its parts.
LEMMA ParsedUnfolds == Parsed = [v \in JSONValues |-> ParsedStep(Parsed, v)]
BY ParsedExists DEF Parsed, ParsedStep

\* One step of Exact.
ExactStep(f, v) ==
    /\ v.json = "number" => v.n \in {"whole", "fraction"}
    /\ v.json = "array"  => \A i \in DOMAIN v.items : f[v.items[i]]
    /\ v.json = "object" => \A n \in DOMAIN v.props : f[v.props[n]]
    /\ v.json = "string" => \A i \in DOMAIN v.holds : f[v.holds[i]]

\* A value is exact when its parts are.
LEMMA ExactUnfolds ==
    /\ Exact \in [JSONValues -> BOOLEAN]
    /\ \A v \in JSONValues : Exact[v] = ExactStep(Exact, v)
<1> DEFINE Rule == [v \in JSONValues |-> [h \in [ShallowerValues(v) -> BOOLEAN] |-> ExactStep(h, v)]]
<1>1. ASSUME NEW v \in JSONValues, NEW h \in [ShallowerValues(v) -> BOOLEAN]
      PROVE  Rule[v][h] = ExactStep(h, v) /\ Rule[v][h] \in BOOLEAN
  BY DEF ExactStep
<1> DEFINE Parts == [v \in JSONValues |-> ShallowerValues(v)]
<1>2. IsRecursion(JSONValues, ValueDepth, BOOLEAN, Parts, Rule)
  BY <1>1, ValuesAssumption DEF IsRecursion, ShallowerValues
<1>3. PICK f : IsDefinedBy(f, JSONValues, BOOLEAN, Parts, Rule)
  <2> HIDE DEF Parts, Rule
  <2> QED BY <1>2, Recursion
<1>4. ASSUME NEW v \in JSONValues PROVE f[v] = ExactStep(f, v)
  <2> DEFINE h == [w \in ShallowerValues(v) |-> f[w]]
  <2>1. h \in [ShallowerValues(v) -> BOOLEAN]
    BY <1>3 DEF ShallowerValues, IsDefinedBy
  <2>2. f[v] = Rule[v][h]
    BY <1>3 DEF IsDefinedBy
  <2>3. ExactStep(h, v) = ExactStep(f, v)
    BY ValueShapes DEF ExactStep
  <2> QED BY <1>1, <2>1, <2>2, <2>3
<1>5. f = [v \in JSONValues |-> ExactStep(f, v)]
  BY <1>3, <1>4 DEF IsDefinedBy
<1>6. Exact = [v \in JSONValues |-> ExactStep(Exact, v)]
  <2> DEFINE IsFixed(g) == g = [v \in JSONValues |-> ExactStep(g, v)]
  <2>1. Exact = CHOOSE g : IsFixed(g)
    BY DEF Exact, ExactStep
  <2>2. IsFixed(f)
    BY <1>5
  <2> HIDE DEF IsFixed
  <2>3. IsFixed(Exact)
    BY <2>1, <2>2
  <2> QED BY <2>3 DEF IsFixed
<1> QED BY <1>6 DEF ExactStep

\* One step of StaysInRange.
RangeStep(f, v) ==
    /\ v.json = "number" => v.n # "edge"
    /\ v.json = "array"  => \A i \in DOMAIN v.items : f[v.items[i]]
    /\ v.json = "object" => \A n \in DOMAIN v.props : f[v.props[n]]

\* A value stays in range when its parts do.
LEMMA RangeUnfolds ==
    /\ StaysInRange \in [JSONValues -> BOOLEAN]
    /\ \A v \in JSONValues : StaysInRange[v] = RangeStep(StaysInRange, v)
<1> DEFINE Rule == [v \in JSONValues |-> [h \in [ShallowerValues(v) -> BOOLEAN] |-> RangeStep(h, v)]]
<1>1. ASSUME NEW v \in JSONValues, NEW h \in [ShallowerValues(v) -> BOOLEAN]
      PROVE  Rule[v][h] = RangeStep(h, v) /\ Rule[v][h] \in BOOLEAN
  BY DEF RangeStep
<1> DEFINE Parts == [v \in JSONValues |-> ShallowerValues(v)]
<1>2. IsRecursion(JSONValues, ValueDepth, BOOLEAN, Parts, Rule)
  BY <1>1, ValuesAssumption DEF IsRecursion, ShallowerValues
<1>3. PICK f : IsDefinedBy(f, JSONValues, BOOLEAN, Parts, Rule)
  <2> HIDE DEF Parts, Rule
  <2> QED BY <1>2, Recursion
<1>4. ASSUME NEW v \in JSONValues PROVE f[v] = RangeStep(f, v)
  <2> DEFINE h == [w \in ShallowerValues(v) |-> f[w]]
  <2>1. h \in [ShallowerValues(v) -> BOOLEAN]
    BY <1>3 DEF ShallowerValues, IsDefinedBy
  <2>2. f[v] = Rule[v][h]
    BY <1>3 DEF IsDefinedBy
  <2>3. RangeStep(h, v) = RangeStep(f, v)
    BY ValueShapes DEF RangeStep
  <2> QED BY <1>1, <2>1, <2>2, <2>3
<1>5. f = [v \in JSONValues |-> RangeStep(f, v)]
  BY <1>3, <1>4 DEF IsDefinedBy
<1>6. StaysInRange = [v \in JSONValues |-> RangeStep(StaysInRange, v)]
  <2> DEFINE IsFixed(g) == g = [v \in JSONValues |-> RangeStep(g, v)]
  <2>1. StaysInRange = CHOOSE g : IsFixed(g)
    BY DEF StaysInRange, RangeStep
  <2>2. IsFixed(f)
    BY <1>5
  <2> HIDE DEF IsFixed
  <2>3. IsFixed(StaysInRange)
    BY <2>1, <2>2
  <2> QED BY <2>3 DEF IsFixed
<1> QED BY <1>6 DEF RangeStep

\* One step of SchemaTellsAll.
TellsAllStep(f, t) ==
    /\ t.kind \notin {"array", "artifact"}
    /\ t.kind = "map"                  => t.elem.kind = "interface"
    /\ t.kind \in {"slice", "pointer"} => f[t.elem]
    /\ t.kind = "struct" => \A n \in DOMAIN t.fields : f[t.fields[n].type]

\* The schema of a type says enough when those of its parts do.
LEMMA SchemaTellsAllUnfolds ==
    /\ SchemaTellsAll \in [GoTypes -> BOOLEAN]
    /\ \A x \in GoTypes : SchemaTellsAll[x] = TellsAllStep(SchemaTellsAll, x)
<1> DEFINE Parts == [x \in GoTypes |-> ShallowerTypes(x)]
<1> DEFINE Rule == [x \in GoTypes |-> [h \in [ShallowerTypes(x) -> BOOLEAN] |-> TellsAllStep(h, x)]]
<1> DEFINE D == TypeDepth
<1>1. ASSUME NEW x \in GoTypes, NEW h \in [ShallowerTypes(x) -> BOOLEAN]
      PROVE  Rule[x][h] = TellsAllStep(h, x) /\ Rule[x][h] \in BOOLEAN
  BY DEF TellsAllStep
<1>2. IsRecursion(GoTypes, D, BOOLEAN, Parts, Rule)
  <2>1. D \in [GoTypes -> Nat]
    BY TypesAssumption
  <2>2. \A x \in GoTypes : \A y \in Parts[x] : y \in GoTypes /\ D[y] < D[x]
    BY DEF ShallowerTypes
  <2> QED BY <1>1, <2>1, <2>2 DEF IsRecursion
<1>3. PICK f : IsDefinedBy(f, GoTypes, BOOLEAN, Parts, Rule)
  <2> HIDE DEF D, Parts, Rule
  <2> QED BY <1>2, Recursion
<1>4. ASSUME NEW x \in GoTypes PROVE f[x] = TellsAllStep(f, x)
  <2> DEFINE h == [y \in ShallowerTypes(x) |-> f[y]]
  <2>1. h \in [ShallowerTypes(x) -> BOOLEAN]
    BY <1>3 DEF ShallowerTypes, IsDefinedBy
  <2>2. f[x] = Rule[x][h]
    BY <1>3 DEF IsDefinedBy
  <2>3. TellsAllStep(h, x) = TellsAllStep(f, x)
    BY TypeShapes DEF TellsAllStep
  <2> QED BY <1>1, <2>1, <2>2, <2>3
<1>5. f = [x \in GoTypes |-> TellsAllStep(f, x)]
  BY <1>3, <1>4 DEF IsDefinedBy
<1>6. SchemaTellsAll = [x \in GoTypes |-> TellsAllStep(SchemaTellsAll, x)]
  <2> DEFINE IsFixed(g) == g = [x \in GoTypes |-> TellsAllStep(g, x)]
  <2>1. SchemaTellsAll = CHOOSE g : IsFixed(g)
    BY DEF SchemaTellsAll, TellsAllStep
  <2>2. IsFixed(f)
    BY <1>5
  <2> HIDE DEF IsFixed
  <2>3. IsFixed(SchemaTellsAll)
    BY <2>1, <2>2
  <2> QED BY <2>3 DEF IsFixed
<1> QED BY <1>6 DEF TellsAllStep

\* A pointer has the schema of what it points to.
LEMMA SchemaOfPointer == \A t \in GoTypes : GoTypeToSchema[t] = GoTypeToSchema[Deref(t)]
<1>1. \A t \in GoTypes : GoTypeToSchema[t] = SchemaStep(GoTypeToSchema, t)
  BY SchemaUnfolds, Zenon
<1> QED BY <1>1, TypeShapes DEF SchemaStep, Deref, IsPointer

\* What the schema of an array or an object is made of are schemas.
LEMMA SchemaShapes ==
    ASSUME NEW s \in Schemas
    PROVE  /\ s.type = "array"  => s.items \in Schemas
           /\ s.type = "object" => \A n \in DOMAIN s.properties : s.properties[n] \in Schemas
<1>1. \A t \in GoTypes : GoTypeToSchema[t] = SchemaStep(GoTypeToSchema, t)
  BY SchemaUnfolds, Zenon
<1>2. ASSUME NEW t \in GoTypes, t.kind # "pointer", s = GoTypeToSchema[t]
      PROVE  /\ s.type = "array"  => s.items \in Schemas
             /\ s.type = "object" => \A n \in DOMAIN s.properties : s.properties[n] \in Schemas
  <2>1. s = SchemaStep(GoTypeToSchema, t)
    BY <1>1, <1>2
  <2>2. CASE t.kind = "slice"
    BY <2>1, <2>2, TypeShapes DEF SchemaStep, Schemas, ShallowerTypes
  <2>3. CASE t.kind = "struct"
    <3>1. \A n \in DOMAIN t.fields : FieldSchema(GoTypeToSchema, t.fields[n]) \in Schemas
      BY <2>3, TypeShapes DEF FieldSchema, Schemas, ShallowerTypes
    <3>2. s = StructSchema(GoTypeToSchema, t)
      BY <2>1, <2>3 DEF SchemaStep
    <3> QED BY <3>1, <3>2 DEF StructSchema
  <2>4. CASE t.kind \notin {"slice", "struct"}
    BY <2>1, <2>4, <1>2 DEF SchemaStep, AnyObject
  <2> QED BY <2>2, <2>3, <2>4
<1>3. CASE \E t \in GoTypes : s = GoTypeToSchema[t]
  <2>1. PICK t \in GoTypes : s = GoTypeToSchema[Deref(t)]
    BY <1>3, SchemaOfPointer
  <2> QED BY <1>2, <2>1, TypeShapes
<1>4. CASE s \in {AnyObject, [type |-> "string"], [type |-> "array", items |-> [type |-> "string"]]}
  BY <1>4 DEF Schemas, AnyObject
<1> QED BY <1>3, <1>4 DEF Schemas

\* One step of Conforms, and of Decodes.
ConformsStep(f, p) ==
    LET v == p[1]  s == p[2] IN
    /\ v.json = IF s.type = "integer" THEN "number" ELSE s.type
    /\ s.type = "integer" => v.n # "fraction"
    /\ s.type = "array"   => \A i \in DOMAIN v.items : f[<<v.items[i], s.items>>]
    /\ s.type = "object"  => PropsConform(f, v.props, s)

DecodesStep(f, p) ==
    LET v == p[1]  t == Deref(p[2]) IN
    \/ v.json = "null" \/ t.kind = "interface"
    \/ t.kind \in {"string", "number", "boolean"} /\ v.json = t.kind
    \/ t.kind = "integer" /\ v.json = "number" /\ v.n \notin {"fraction", "huge"}
    \/ /\ t.kind \in {"slice", "array"} /\ v.json = "array"
       /\ \A i \in DOMAIN v.items : f[<<v.items[i], t.elem>>]
    \/ v.json = "object" /\ PropsDecode(f, v.props, t)

\* A value conforms to a schema when its parts conform to the parts of the schema.
LEMMA ConformsUnfolds ==
    /\ Conforms \in [JSONValues \X Schemas -> BOOLEAN]
    /\ \A x \in JSONValues \X Schemas : Conforms[x] = ConformsStep(Conforms, x)
<1> DEFINE Parts == [x \in JSONValues \X Schemas |-> ShallowerValues(x[1]) \X Schemas]
<1> DEFINE Rule ==
      [x \in JSONValues \X Schemas |->
          [h \in [ShallowerValues(x[1]) \X Schemas -> BOOLEAN] |-> ConformsStep(h, x)]]
<1> DEFINE D == [x \in JSONValues \X Schemas |-> ValueDepth[x[1]]]
<1>1. ASSUME NEW x \in JSONValues \X Schemas, NEW h \in [ShallowerValues(x[1]) \X Schemas -> BOOLEAN]
      PROVE  Rule[x][h] = ConformsStep(h, x) /\ Rule[x][h] \in BOOLEAN
  BY DEF ConformsStep, PropsConform
<1>2. IsRecursion(JSONValues \X Schemas, D, BOOLEAN, Parts, Rule)
  <2>1. D \in [JSONValues \X Schemas -> Nat]
    BY ValuesAssumption
  <2>2. \A x \in JSONValues \X Schemas : \A y \in Parts[x] : y \in JSONValues \X Schemas /\ D[y] < D[x]
    BY DEF ShallowerValues
  <2> QED BY <1>1, <2>1, <2>2 DEF IsRecursion
<1>3. PICK f : IsDefinedBy(f, JSONValues \X Schemas, BOOLEAN, Parts, Rule)
  <2> HIDE DEF D, Parts, Rule
  <2> QED BY <1>2, Recursion
<1>4. ASSUME NEW x \in JSONValues \X Schemas PROVE f[x] = ConformsStep(f, x)
  <2> DEFINE h == [y \in ShallowerValues(x[1]) \X Schemas |-> f[y]]
  <2>1. h \in [ShallowerValues(x[1]) \X Schemas -> BOOLEAN]
    BY <1>3 DEF ShallowerValues, IsDefinedBy
  <2>2. f[x] = Rule[x][h]
    BY <1>3 DEF IsDefinedBy
  <2>3. ConformsStep(h, x) = ConformsStep(f, x)
    BY ValueShapes, SchemaShapes DEF ConformsStep, PropsConform
  <2> QED BY <1>1, <2>1, <2>2, <2>3
<1>5. f = [x \in JSONValues \X Schemas |-> ConformsStep(f, x)]
  BY <1>3, <1>4 DEF IsDefinedBy
<1>6. Conforms = [x \in JSONValues \X Schemas |-> ConformsStep(Conforms, x)]
  <2> DEFINE IsFixed(g) == g = [x \in JSONValues \X Schemas |-> ConformsStep(g, x)]
  <2>1. Conforms = CHOOSE g : IsFixed(g)
    BY DEF Conforms, ConformsStep
  <2>2. IsFixed(f)
    BY <1>5
  <2> HIDE DEF IsFixed
  <2>3. IsFixed(Conforms)
    BY <2>1, <2>2
  <2> QED BY <2>3 DEF IsFixed
<1> QED BY <1>6 DEF ConformsStep, PropsConform

\* A value is stored in a type when its parts are stored in the parts of the type.
LEMMA DecodesUnfolds ==
    /\ Decodes \in [JSONValues \X GoTypes -> BOOLEAN]
    /\ \A x \in JSONValues \X GoTypes : Decodes[x] = DecodesStep(Decodes, x)
<1> DEFINE Parts == [x \in JSONValues \X GoTypes |-> ShallowerValues(x[1]) \X GoTypes]
<1> DEFINE Rule ==
      [x \in JSONValues \X GoTypes |->
          [h \in [ShallowerValues(x[1]) \X GoTypes -> BOOLEAN] |-> DecodesStep(h, x)]]
<1> DEFINE D == [x \in JSONValues \X GoTypes |-> ValueDepth[x[1]]]
<1>1. ASSUME NEW x \in JSONValues \X GoTypes, NEW h \in [ShallowerValues(x[1]) \X GoTypes -> BOOLEAN]
      PROVE  Rule[x][h] = DecodesStep(h, x) /\ Rule[x][h] \in BOOLEAN
  BY DEF DecodesStep, PropsDecode
<1>2. IsRecursion(JSONValues \X GoTypes, D, BOOLEAN, Parts, Rule)
  <2>1. D \in [JSONValues \X GoTypes -> Nat]
    BY ValuesAssumption
  <2>2. \A x \in JSONValues \X GoTypes : \A y \in Parts[x] : y \in JSONValues \X GoTypes /\ D[y] < D[x]
    BY DEF ShallowerValues
  <2> QED BY <1>1, <2>1, <2>2 DEF IsRecursion
<1>3. PICK f : IsDefinedBy(f, JSONValues \X GoTypes, BOOLEAN, Parts, Rule)
  <2> HIDE DEF D, Parts, Rule
  <2> QED BY <1>2, Recursion
<1>4. ASSUME NEW x \in JSONValues \X GoTypes PROVE f[x] = DecodesStep(f, x)
  <2> DEFINE h == [y \in ShallowerValues(x[1]) \X GoTypes |-> f[y]]
  <2>1. h \in [ShallowerValues(x[1]) \X GoTypes -> BOOLEAN]
    BY <1>3 DEF ShallowerValues, IsDefinedBy
  <2>2. f[x] = Rule[x][h]
    BY <1>3 DEF IsDefinedBy
  <2>3. DecodesStep(h, x) = DecodesStep(f, x)
    <3> DEFINE v == x[1]  t == Deref(x[2])
    <3>1. v \in JSONValues /\ t \in GoTypes
      BY TypeShapes
    <3>2. \A w \in ShallowerValues(v), u \in GoTypes : h[<<w, u>>] = f[<<w, u>>]
      OBVIOUS
    <3> HIDE DEF h, v, t
    <3>3. ASSUME v.json = "array", t.kind \in {"slice", "array"}, NEW i \in DOMAIN v.items
          PROVE  h[<<v.items[i], t.elem>>] = f[<<v.items[i], t.elem>>]
      BY <3>1, <3>2, <3>3, ValueShapes, TypeShapes DEF ShallowerTypes
    <3>4. ASSUME v.json = "object"
          PROVE  PropsDecode(h, v.props, t) = PropsDecode(f, v.props, t)
      <4>1. ASSUME t.kind = "map", NEW n \in DOMAIN v.props
            PROVE  h[<<v.props[n], t.elem>>] = f[<<v.props[n], t.elem>>]
        BY <3>1, <3>2, <3>4, <4>1, ValueShapes, TypeShapes DEF ShallowerTypes
      <4>2. ASSUME t.kind = "struct", NEW n \in DOMAIN v.props \intersect DOMAIN t.fields
            PROVE  h[<<v.props[n], t.fields[n].type>>] = f[<<v.props[n], t.fields[n].type>>]
        BY <3>1, <3>2, <3>4, <4>2, ValueShapes, TypeShapes DEF ShallowerTypes
      <4> QED BY <4>1, <4>2 DEF PropsDecode
    <3> QED BY <3>3, <3>4 DEF DecodesStep, v, t
  <2> QED BY <1>1, <2>1, <2>2, <2>3
<1>5. f = [x \in JSONValues \X GoTypes |-> DecodesStep(f, x)]
  BY <1>3, <1>4 DEF IsDefinedBy
<1>6. Decodes = [x \in JSONValues \X GoTypes |-> DecodesStep(Decodes, x)]
  <2> DEFINE IsFixed(g) == g = [x \in JSONValues \X GoTypes |-> DecodesStep(g, x)]
  <2>1. Decodes = CHOOSE g : IsFixed(g)
    BY DEF Decodes, DecodesStep
  <2>2. IsFixed(f)
    BY <1>5
  <2> HIDE DEF IsFixed
  <2>3. IsFixed(Decodes)
    BY <2>1, <2>2
  <2> QED BY <2>3 DEF IsFixed
<1> QED BY <1>6 DEF DecodesStep, PropsDecode

-----------------------------------------------------------------------------
(***************************************************************************)
(* What the recursive functions do to each other.                          *)
(***************************************************************************)

\* Induction over values: what holds of a value when it holds of all that are
\* less deep holds of all values.
LEMMA ValueInduction ==
    ASSUME NEW S \in SUBSET JSONValues, \A v \in JSONValues : ShallowerValues(v) \subseteq S => v \in S
    PROVE  \A v \in JSONValues : v \in S
<1> DEFINE T == JSONValues \ S
<1> SUFFICES ASSUME T # {} PROVE FALSE
  OBVIOUS
<1>1. \A v \in JSONValues : ValueDepth[v] \in Nat
  BY ValuesAssumption
<1>2. PICK v \in T : \A w \in T : ValueDepth[v] <= ValueDepth[w]
  <2>1. T \in SUBSET JSONValues
    OBVIOUS
  <2> HIDE DEF T
  <2> QED BY <2>1, Shallowest, ValuesAssumption
<1>3. ASSUME NEW w \in ShallowerValues(v) PROVE w \in S
  <2>1. w \in JSONValues /\ ~(ValueDepth[v] <= ValueDepth[w])
    BY <1>1 DEF ShallowerValues
  <2> QED BY <1>2, <2>1
<1> QED BY <1>2, <1>3

\* A parsed value is a value of the same kind.
LEMMA ParsedShape ==
    ASSUME NEW v \in JSONValues
    PROVE  Parsed[v] = ParsedStep(Parsed, v) /\ Parsed[v] \in JSONValues /\ Parsed[v].json = v.json
<1>1. Parsed[v] = ParsedStep(Parsed, v)
  BY ParsedUnfolds, Zenon
<1>2. Parsed[v] \in JSONValues
  BY ParsedAssumption
<1> QED BY <1>1, <1>2, ValueShapes DEF ParsedStep

\* Parsing loses nothing of a value whose numbers a float64 holds.
LEMMA ExactIsParsed == \A v \in JSONValues : Exact[v] => Parsed[v] = v
<1> DEFINE S == {v \in JSONValues : Exact[v] => Parsed[v] = v}
<1> SUFFICES ASSUME NEW v \in JSONValues, ShallowerValues(v) \subseteq S, Exact[v]
             PROVE  Parsed[v] = v
  <2>1. S \in SUBSET JSONValues /\ \A v \in JSONValues : ShallowerValues(v) \subseteq S => v \in S
    OBVIOUS
  <2>2. \A v \in JSONValues : v \in S
    <3> HIDE DEF S
    <3> QED BY <2>1, ValueInduction
  <2> QED BY <2>2
<1>2. \A w \in ShallowerValues(v) : Exact[w] => Parsed[w] = w
  OBVIOUS
<1> HIDE DEF S
<1>3. ExactStep(Exact, v) /\ Parsed[v] = ParsedStep(Parsed, v)
  BY ExactUnfolds, ParsedShape
<1>4. CASE v.json = "array"
  <2>1. \A i \in DOMAIN v.items : Parsed[v.items[i]] = v.items[i]
    BY <1>2, <1>3, <1>4, ValueShapes DEF ExactStep
  <2>2. [i \in DOMAIN v.items |-> Parsed[v.items[i]]] = [i \in DOMAIN v.items |-> v.items[i]]
    BY <2>1
  <2>3. Parsed[v] = [json |-> "array", items |-> v.items]
    BY <1>3, <1>4, <2>2, ValueShapes DEF ParsedStep
  <2> QED BY <1>4, <2>3, ValueShapes
<1>5. CASE v.json = "object"
  <2>1. \A n \in DOMAIN v.props : Parsed[v.props[n]] = v.props[n]
    BY <1>2, <1>3, <1>5, ValueShapes DEF ExactStep
  <2>2. [n \in DOMAIN v.props |-> Parsed[v.props[n]]] = [n \in DOMAIN v.props |-> v.props[n]]
    BY <2>1
  <2>3. Parsed[v] = [json |-> "object", props |-> v.props]
    BY <1>3, <1>5, <2>2, ValueShapes DEF ParsedStep
  <2> QED BY <1>5, <2>3, ValueShapes
<1>6. CASE v.json = "number"
  BY <1>3, <1>6, ValueShapes DEF ParsedStep, ParsedNumber, ExactStep
<1>7. CASE v.json \notin {"array", "object", "number"}
  BY <1>3, <1>7 DEF ParsedStep
<1> QED BY <1>4, <1>5, <1>6, <1>7

\* A value whose numbers stay in range fits a type after it was parsed exactly when
\* it fits it before.
LEMMA DecodesParsed ==
    \A v \in JSONValues :
        StaysInRange[v] => \A t \in GoTypes : Decodes[<<Parsed[v], t>>] = Decodes[<<v, t>>]
<1> DEFINE Same(v) ==
               StaysInRange[v] => \A t \in GoTypes : Decodes[<<Parsed[v], t>>] = Decodes[<<v, t>>]
<1> DEFINE S == {v \in JSONValues : Same(v)}
<1> SUFFICES ASSUME NEW v \in JSONValues, ShallowerValues(v) \subseteq S
             PROVE  Same(v)
  <2> HIDE DEF Same
  <2>1. S \in SUBSET JSONValues /\ \A v \in JSONValues : ShallowerValues(v) \subseteq S => v \in S
    OBVIOUS
  <2>2. \A v \in JSONValues : v \in S
    <3> HIDE DEF S
    <3> QED BY <2>1, ValueInduction
  <2>3. \A v \in JSONValues : Same(v)
    BY <2>2
  <2> QED BY <2>3 DEF Same
<1>2. \A w \in ShallowerValues(v) : Same(w)
  <2> HIDE DEF Same
  <2> QED OBVIOUS
<1> HIDE DEF S, Same
<1>3. ASSUME StaysInRange[v], NEW tt \in GoTypes
      PROVE  Decodes[<<Parsed[v], tt>>] = Decodes[<<v, tt>>]
  <2> DEFINE p == Parsed[v]  t == Deref(tt)
  <2>0. RangeStep(StaysInRange, v)
    BY <1>3, RangeUnfolds
  <2>1. p = ParsedStep(Parsed, v) /\ p \in JSONValues /\ p.json = v.json
    BY ParsedShape
  <2>2. t \in GoTypes
    BY TypeShapes
  <2>3. Decodes[<<p, tt>>] = DecodesStep(Decodes, <<p, tt>>) /\ Decodes[<<v, tt>>] = DecodesStep(Decodes, <<v, tt>>)
    BY <2>1, DecodesUnfolds
  <2> HIDE DEF p, t
  <2>4. ASSUME v.json = "array", t.kind \in {"slice", "array"}
        PROVE  /\ DOMAIN p.items = DOMAIN v.items
               /\ \A i \in DOMAIN v.items : Decodes[<<p.items[i], t.elem>>] = Decodes[<<v.items[i], t.elem>>]
    <3>1. p.items = [i \in DOMAIN v.items |-> Parsed[v.items[i]]]
      BY <2>1, <2>4 DEF ParsedStep
    <3>2. t.elem \in GoTypes
      BY <2>2, <2>4, TypeShapes DEF ShallowerTypes
    <3>3. \A i \in DOMAIN v.items : Same(v.items[i])
      BY <1>2, <2>4, ValueShapes
    <3>4. \A i \in DOMAIN v.items : StaysInRange[v.items[i]]
      BY <2>0, <2>4 DEF RangeStep
    <3> QED BY <3>1, <3>2, <3>3, <3>4 DEF Same
  <2>5. ASSUME v.json = "object"
        PROVE  PropsDecode(Decodes, p.props, t) = PropsDecode(Decodes, v.props, t)
    <3>1. p.props = [n \in DOMAIN v.props |-> Parsed[v.props[n]]]
      BY <2>1, <2>5 DEF ParsedStep
    <3>0. \A n \in DOMAIN v.props : Same(v.props[n])
      BY <1>2, <2>5, ValueShapes
    <3>2. \A n \in DOMAIN v.props :
             \A u \in GoTypes : Decodes[<<Parsed[v.props[n]], u>>] = Decodes[<<v.props[n], u>>]
      BY <2>0, <2>5, <3>0 DEF RangeStep, Same
    <3>3. ASSUME t.kind = "map", NEW n \in DOMAIN v.props
          PROVE  Decodes[<<p.props[n], t.elem>>] = Decodes[<<v.props[n], t.elem>>]
      <4>1. t.elem \in GoTypes
        BY <2>2, <3>3, TypeShapes DEF ShallowerTypes
      <4> QED BY <3>1, <3>2, <4>1
    <3>4. ASSUME t.kind = "struct", NEW n \in DOMAIN v.props \intersect DOMAIN t.fields
          PROVE  Decodes[<<p.props[n], t.fields[n].type>>] = Decodes[<<v.props[n], t.fields[n].type>>]
      <4>1. t.fields[n].type \in GoTypes
        BY <2>2, <3>4, TypeShapes DEF ShallowerTypes
      <4> QED BY <3>1, <3>2, <4>1
    <3>5. DOMAIN p.props = DOMAIN v.props
      BY <3>1
    <3> QED BY <3>3, <3>4, <3>5 DEF PropsDecode
  <2>6. v.json = "number" => (p.n \in {"fraction", "huge"} <=> v.n \in {"fraction", "huge"})
    BY <2>0, <2>1 DEF ParsedStep, ParsedNumber, RangeStep
  <2>7. DecodesStep(Decodes, <<p, tt>>) = DecodesStep(Decodes, <<v, tt>>)
    BY <2>1, <2>4, <2>5, <2>6 DEF DecodesStep, t
  <2> QED BY <2>3, <2>7 DEF p
<1> QED BY <1>3 DEF Same

\* A field of a type whose schema says enough is no artifact.
LEMMA TellsAllFieldSchema ==
    ASSUME NEW f, f.type \in GoTypes, SchemaTellsAll[f.type]
    PROVE  /\ ParamKind(f) \notin {"artifact", "list"}
           /\ FieldSchema(GoTypeToSchema, f) = GoTypeToSchema[Deref(f.type)]
<1> DEFINE t == Deref(f.type)
<1>1. t \in GoTypes
  BY TypeShapes
<1>2. SchemaTellsAll[t]
  <2>1. TellsAllStep(SchemaTellsAll, f.type)
    BY SchemaTellsAllUnfolds
  <2> QED BY <2>1 DEF TellsAllStep, Deref, IsPointer
<1>3. TellsAllStep(SchemaTellsAll, t)
  BY <1>1, <1>2, SchemaTellsAllUnfolds
<1>4. t.kind = "slice" => t.elem.kind # "artifact"
  <2> SUFFICES ASSUME t.kind = "slice" PROVE t.elem.kind # "artifact"
    OBVIOUS
  <2>1. t.elem \in GoTypes /\ SchemaTellsAll[t.elem]
    BY <1>1, <1>3, TypeShapes DEF TellsAllStep, ShallowerTypes
  <2> QED BY <2>1, SchemaTellsAllUnfolds DEF TellsAllStep
<1> HIDE DEF t
<1>5. ParamKind(f) \notin {"artifact", "list"}
  BY <1>3, <1>4 DEF ParamKind, IsArtifactType, TellsAllStep, t
<1> QED BY <1>5 DEF FieldSchema

\* What the schema of a type allows fits the type, where the schema says enough.
LEMMA ConformingDecodes ==
    \A v \in JSONValues : \A t \in GoTypes :
        /\ SchemaTellsAll[t] /\ Exact[v]
        /\ Conforms[<<v, GoTypeToSchema[Deref(t)]>>]
        => Decodes[<<v, t>>]
<1> DEFINE Kept(v) == \A t \in GoTypes :
              SchemaTellsAll[t] /\ Exact[v] /\ Conforms[<<v, GoTypeToSchema[Deref(t)]>>] => Decodes[<<v, t>>]
<1> DEFINE S == {v \in JSONValues : Kept(v)}
<1> SUFFICES ASSUME NEW v \in JSONValues, ShallowerValues(v) \subseteq S
             PROVE  Kept(v)
  <2> HIDE DEF Kept
  <2>1. S \in SUBSET JSONValues /\ \A v \in JSONValues : ShallowerValues(v) \subseteq S => v \in S
    OBVIOUS
  <2>2. \A v \in JSONValues : v \in S
    <3> HIDE DEF S
    <3> QED BY <2>1, ValueInduction
  <2>3. \A v \in JSONValues : Kept(v)
    BY <2>2
  <2> QED BY <2>3 DEF Kept
<1>2. \A w \in ShallowerValues(v) : Kept(w)
  <2> HIDE DEF Kept
  <2> QED OBVIOUS
<1> HIDE DEF S, Kept
<1>3. ASSUME NEW tt \in GoTypes, SchemaTellsAll[tt], Exact[v],
             Conforms[<<v, GoTypeToSchema[Deref(tt)]>>]
      PROVE  Decodes[<<v, tt>>]
  <2> DEFINE t == Deref(tt)  s == GoTypeToSchema[Deref(tt)]
  <2>1. t \in GoTypes /\ t.kind # "pointer"
    BY TypeShapes
  <2>2. TellsAllStep(SchemaTellsAll, t)
    <3>1. TellsAllStep(SchemaTellsAll, tt)
      BY <1>3, SchemaTellsAllUnfolds
    <3>2. SchemaTellsAll[t]
      BY <1>3, <3>1 DEF TellsAllStep, Deref, IsPointer
    <3> QED BY <2>1, <3>2, SchemaTellsAllUnfolds
  <2>3. s = SchemaStep(GoTypeToSchema, t)
    BY <2>1, SchemaUnfolds, Zenon
  <2>4. ConformsStep(Conforms, <<v, s>>) /\ s \in Schemas
    <3>1. s \in Schemas
      BY <2>1 DEF Schemas
    <3> QED BY <1>3, <3>1, ConformsUnfolds
  <2>5. ExactStep(Exact, v)
    BY <1>3, ExactUnfolds
  <2>6. Decodes[<<v, tt>>] = DecodesStep(Decodes, <<v, tt>>)
    BY DecodesUnfolds
  <2>7. IsGoType(t)
    BY <2>1, TypesAssumption
  <2> SUFFICES \/ v.json = "null" \/ t.kind = "interface"
               \/ t.kind \in {"string", "number", "boolean"} /\ v.json = t.kind
               \/ t.kind = "integer" /\ v.json = "number" /\ v.n \notin {"fraction", "huge"}
               \/ /\ t.kind \in {"slice", "array"} /\ v.json = "array"
                  /\ \A i \in DOMAIN v.items : Decodes[<<v.items[i], t.elem>>]
               \/ v.json = "object" /\ PropsDecode(Decodes, v.props, t)
    BY <2>6 DEF DecodesStep
  <2> HIDE DEF t, s
  <2>8. CASE t.kind \in {"string", "integer", "number", "boolean"}
    <3>1. s = [type |-> t.kind]
      BY <2>3, <2>8 DEF SchemaStep
    <3> QED BY <2>4, <2>5, <2>8, <3>1 DEF ConformsStep, ExactStep
  <2>9. CASE t.kind = "slice"
    <3>1. s = [type |-> "array", items |-> GoTypeToSchema[t.elem]]
      BY <2>3, <2>9 DEF SchemaStep
    <3>2. v.json = "array" /\ \A i \in DOMAIN v.items : Conforms[<<v.items[i], GoTypeToSchema[t.elem]>>]
      BY <2>4, <3>1 DEF ConformsStep
    <3>3. t.elem \in GoTypes /\ SchemaTellsAll[t.elem]
      BY <2>1, <2>2, <2>9, TypeShapes DEF TellsAllStep, ShallowerTypes
    <3>4. GoTypeToSchema[t.elem] = GoTypeToSchema[Deref(t.elem)]
      BY <3>3, SchemaOfPointer
    <3>5. ASSUME NEW i \in DOMAIN v.items PROVE Decodes[<<v.items[i], t.elem>>]
      <4>1. Exact[v.items[i]] /\ Kept(v.items[i])
        BY <1>2, <2>5, <3>2, ValueShapes DEF ExactStep
      <4> QED BY <3>2, <3>3, <3>4, <4>1 DEF Kept
    <3> QED BY <2>9, <3>2, <3>5
  <2>10. CASE t.kind = "map"
    <3>1. s = AnyObject /\ t.elem.kind = "interface" /\ t.elem \in GoTypes
      BY <2>1, <2>2, <2>3, <2>10, TypeShapes DEF SchemaStep, TellsAllStep, ShallowerTypes
    <3>2. v.json = "object"
      BY <2>4, <3>1 DEF ConformsStep, AnyObject
    <3>3. ASSUME NEW n \in DOMAIN v.props PROVE Decodes[<<v.props[n], t.elem>>]
      <4>1. v.props[n] \in JSONValues
        BY <3>2, ValueShapes DEF ShallowerValues
      <4>2. DecodesStep(Decodes, <<v.props[n], t.elem>>)
        BY <3>1 DEF DecodesStep, Deref, IsPointer
      <4> QED BY <3>1, <4>1, <4>2, DecodesUnfolds
    <3> QED BY <2>10, <3>2, <3>3 DEF PropsDecode
  <2>11. CASE t.kind = "struct"
    <3>1. s = StructSchema(GoTypeToSchema, t)
      BY <2>3, <2>11 DEF SchemaStep
    <3>2. v.json = "object" /\ PropsConform(Conforms, v.props, s)
      BY <2>4, <3>1 DEF ConformsStep, StructSchema
    <3>3. ASSUME NEW n \in DOMAIN v.props \intersect DOMAIN t.fields
          PROVE  Decodes[<<v.props[n], t.fields[n].type>>]
      <4>1. Conforms[<<v.props[n], FieldSchema(GoTypeToSchema, t.fields[n])>>]
        BY <3>1, <3>2 DEF PropsConform, StructSchema
      <4>2. t.fields[n].type \in GoTypes /\ SchemaTellsAll[t.fields[n].type]
        BY <2>1, <2>2, <2>11, TypeShapes DEF TellsAllStep, ShallowerTypes
      <4>3. FieldSchema(GoTypeToSchema, t.fields[n]) = GoTypeToSchema[Deref(t.fields[n].type)]
        BY <4>2, TellsAllFieldSchema
      <4>4. Exact[v.props[n]] /\ Kept(v.props[n])
        BY <1>2, <2>5, <3>2, ValueShapes DEF ExactStep
      <4> QED BY <4>1, <4>2, <4>3, <4>4 DEF Kept
    <3> QED BY <2>11, <3>2, <3>3 DEF PropsDecode
  <2> QED BY <2>1, <2>2, <2>7, <2>8, <2>9, <2>10, <2>11 DEF IsGoType, TellsAllStep
<1> QED BY <1>3 DEF Kept

-----------------------------------------------------------------------------
(***************************************************************************)
(* The transports.  Everything they do is decided by the call.             *)
(***************************************************************************)

\* What a transport loads, and what becomes of the arguments.
Loaded(tr) ==
    [n \in ArtifactParams(call.tool.params) |-> [i \in 1 .. Staged(n) |-> LoadSingleArtifact(tr)]]

Deserialized(tr) == DeserializeParams(call.tool.params, Args(tr), Loaded(tr))

\* The files after the handler has saved its own.
SavedFiles ==
    [p \in Paths |->
        IF call.outcome.outputDir /\ p \in call.outcome.saves THEN Saved ELSE Nothing]

\* Whether the handler is reached, and whether it has a result.
Starts      == call.found /\ ~LoadFails
Accepts(tr) == Starts /\ Deserialized(tr) = "ok"
Returns(tr) == Accepts(tr) /\ call.outcome.returns \notin {"error", "panic"}

\* What the call makes of every variable of a transport, by how far it is.
ObjectsOf(tr) ==
    IF Starts /\ pc[tr] \notin {"find", "load"} THEN Loaded(tr) ELSE <<>>

ParamsOf(tr) ==
    IF Accepts(tr) /\ pc[tr] \notin {"find", "load", "params"}
    THEN ParamsJSON(call.tool.params, Args(tr)) ELSE <<>>

Left == IF call.outcome.outputDir THEN Remaining(call.outcome.objects) ELSE call.outcome.objects

ResultOf(tr) ==
    IF ~Returns(tr) \/ pc[tr] \notin {"extract", "answer", "answered"} THEN <<>>
    ELSE IF pc[tr] = "extract" THEN call.outcome.objects ELSE Left

FilesOf(tr) ==
    IF ~Accepts(tr) \/ pc[tr] \notin {"extract", "answer", "answered"} THEN [p \in Paths |-> Nothing]
    ELSE IF pc[tr] = "extract" \/ ~Returns(tr) \/ ~call.outcome.outputDir THEN SavedFiles
    ELSE FilesAfter(call.outcome.objects, SavedFiles)

\* What is written for a result, and the answer to a call.
WireForm ==
    CASE call.outcome.returns = "nil" -> [status |-> "null"]
      [] ~call.outcome.marshals       -> Error("marshal")
      [] OTHER                        -> [status |-> "ok", objects |-> Left]

Verdict(tr) ==
    CASE ~call.found                          -> Error("tool")
      [] call.found /\ LoadFails              -> Error("artifacts")
      [] Starts /\ Deserialized(tr) # "ok"    -> Error(Deserialized(tr))
      [] Accepts(tr) /\ ~Returns(tr)          -> Error("handler")
      [] OTHER                                -> WireForm

AnswerOf(tr) == IF pc[tr] = "answered" THEN Verdict(tr) ELSE <<>>

\* A transport is only where the call can bring it.
Reaches(tr) ==
    /\ pc[tr] \in {"find", "load", "params", "handler", "extract", "answer", "answered"}
    /\ pc[tr] = "load"                => call.found
    /\ pc[tr] = "params"              => Starts
    /\ pc[tr] = "handler"             => Accepts(tr)
    /\ pc[tr] \in {"extract", "answer"} => Returns(tr)

TransportInv(tr) ==
    /\ Reaches(tr)
    /\ objects[tr] = ObjectsOf(tr)
    /\ params[tr] = ParamsOf(tr)
    /\ result[tr] = ResultOf(tr)
    /\ files[tr] = FilesOf(tr)
    /\ answer[tr] = AnswerOf(tr)

Labels == {"find", "load", "params", "handler", "extract", "answer", "answered"}

InvocationInv ==
    /\ call \in Calls
    /\ ~call.found => call.args = <<>> /\ call.staging = "all" /\ ~call.goInts
    /\ pc \in [Transports -> Labels]
    /\ objects = [tr \in Transports |-> objects[tr]]
    /\ params = [tr \in Transports |-> params[tr]]
    /\ result = [tr \in Transports |-> result[tr]]
    /\ files = [tr \in Transports |-> files[tr]]
    /\ answer = [tr \in Transports |-> answer[tr]]
    /\ \A tr \in Transports : TransportInv(tr)

\* What the call decides is decided once.
LEMMA CallDecides ==
    ASSUME UNCHANGED call, NEW tr
    PROVE  /\ Starts' = Starts /\ LoadFails' = LoadFails
           /\ Accepts(tr)' = Accepts(tr) /\ Returns(tr)' = Returns(tr)
           /\ Loaded(tr)' = Loaded(tr) /\ Deserialized(tr)' = Deserialized(tr)
           /\ Args(tr)' = Args(tr) /\ Left' = Left /\ SavedFiles' = SavedFiles
           /\ Verdict(tr)' = Verdict(tr)
<1>1. /\ LoadFails' = LoadFails /\ Args(tr)' = Args(tr)
      /\ Left' = Left /\ SavedFiles' = SavedFiles
  BY DEF LoadFails, Staged, Args, Left, SavedFiles
<1>2. Loaded(tr)' = Loaded(tr)
  BY DEF Loaded, Staged, LoadSingleArtifact
<1>3. /\ Starts' = Starts /\ Accepts(tr)' = Accepts(tr) /\ Returns(tr)' = Returns(tr)
      /\ Deserialized(tr)' = Deserialized(tr)
  BY <1>1, <1>2 DEF Starts, Accepts, Returns, Deserialized
<1>4. WireForm' = WireForm
  BY <1>1 DEF WireForm
<1>5. Verdict(tr)' = Verdict(tr)
  BY <1>1, <1>3, <1>4 DEF Verdict
<1> QED BY <1>1, <1>2, <1>3, <1>5

\* A transport that does nothing is as the call made it.
LEMMA IdleTransport ==
    ASSUME UNCHANGED call, NEW tr, TransportInv(tr),
           pc'[tr] = pc[tr], objects'[tr] = objects[tr], params'[tr] = params[tr],
           result'[tr] = result[tr], files'[tr] = files[tr], answer'[tr] = answer[tr]
    PROVE  TransportInv(tr)'
BY CallDecides
   DEF TransportInv, Reaches, ObjectsOf, ParamsOf, ResultOf, FilesOf, AnswerOf

\* One transport takes a step and the other stands still.
LEMMA OneTransport ==
    ASSUME InvocationInv, UNCHANGED call, NEW tr \in Transports, NEW label \in Labels,
           Go(tr, label),
           \A o \in Transports \ {tr} :
              /\ objects'[o] = objects[o] /\ params'[o] = params[o] /\ result'[o] = result[o]
              /\ files'[o] = files[o] /\ answer'[o] = answer[o],
           objects' = [o \in Transports |-> objects'[o]],
           params' = [o \in Transports |-> params'[o]],
           result' = [o \in Transports |-> result'[o]],
           files' = [o \in Transports |-> files'[o]],
           answer' = [o \in Transports |-> answer'[o]],
           TransportInv(tr)'
    PROVE  InvocationInv'
<1>1. pc' \in [Transports -> Labels]
  BY DEF InvocationInv, Go
<1>2. ASSUME NEW o \in Transports \ {tr} PROVE TransportInv(o)'
  <2>1. pc'[o] = pc[o]
    BY DEF InvocationInv, Go
  <2> QED BY <2>1, IdleTransport DEF InvocationInv
<1>3. Calls' = Calls
  BY DEF Calls
<1> QED BY <1>1, <1>2, <1>3 DEF InvocationInv

\* A tool that is not found is answered at once.
LEMMA FindToolInv ==
    ASSUME InvocationInv, NEW tr \in Transports, FindTool(tr)
    PROVE  InvocationInv'
<1> USE DEF FindTool, Answer
<1>1. TransportInv(tr)
  BY DEF InvocationInv
<1>2. CASE call.found
  <2>1. Go(tr, "load") /\ UNCHANGED <<call, objects, params, result, files, answer>>
    BY <1>2
  <2>2. pc'[tr] = "load"
    BY <2>1 DEF InvocationInv, Go
  <2>3. TransportInv(tr)'
    BY <1>1, <1>2, <2>1, <2>2, CallDecides
       DEF TransportInv, Reaches, ObjectsOf, ParamsOf, ResultOf, FilesOf, AnswerOf
  <2> QED BY <2>1, <2>3, OneTransport DEF InvocationInv, Labels
<1>3. CASE ~call.found
  <2>1. /\ Go(tr, "answered") /\ UNCHANGED <<call, objects, params, result, files>>
        /\ answer' = [answer EXCEPT ![tr] = Error("tool")]
    BY <1>3
  <2>2. pc'[tr] = "answered" /\ answer'[tr] = Error("tool")
    BY <2>1 DEF InvocationInv, Go
  <2>3. TransportInv(tr)'
    BY <1>1, <1>3, <2>1, <2>2, CallDecides
       DEF TransportInv, Reaches, ObjectsOf, ParamsOf, ResultOf, FilesOf, AnswerOf, Verdict, Starts, Accepts, Returns
  <2> QED BY <2>1, <2>3, OneTransport DEF InvocationInv, Labels
<1> QED BY <1>2, <1>3

\* Artifacts are loaded or the call is refused for them.
LEMMA LoadArtifactsInv ==
    ASSUME InvocationInv, NEW tr \in Transports, LoadArtifacts(tr)
    PROVE  InvocationInv'
<1> USE DEF LoadArtifacts, Answer
<1>1. TransportInv(tr)
  BY DEF InvocationInv
<1>2. CASE LoadFails
  <2>1. /\ Go(tr, "answered") /\ UNCHANGED <<call, objects, params, result, files>>
        /\ answer' = [answer EXCEPT ![tr] = Error("artifacts")]
    BY <1>2
  <2>2. pc'[tr] = "answered" /\ answer'[tr] = Error("artifacts")
    BY <2>1 DEF InvocationInv, Go
  <2>3. TransportInv(tr)'
    BY <1>1, <1>2, <2>1, <2>2, CallDecides
       DEF TransportInv, Reaches, ObjectsOf, ParamsOf, ResultOf, FilesOf, AnswerOf, Verdict, Starts, Accepts, Returns
  <2> QED BY <2>1, <2>3, OneTransport DEF InvocationInv, Labels
<1>3. CASE ~LoadFails
  <2>1. /\ Go(tr, "params") /\ UNCHANGED <<call, params, result, files, answer>>
        /\ objects' = [objects EXCEPT ![tr] = Loaded(tr)]
    BY <1>3 DEF Loaded
  <2>2. pc'[tr] = "params" /\ objects'[tr] = Loaded(tr)
    BY <2>1 DEF InvocationInv, Go
  <2>3. TransportInv(tr)'
    BY <1>1, <1>3, <2>1, <2>2, CallDecides
       DEF TransportInv, Reaches, ObjectsOf, ParamsOf, ResultOf, FilesOf, AnswerOf, Starts
  <2> QED BY <2>1, <2>3, OneTransport DEF InvocationInv, Labels
<1> QED BY <1>2, <1>3

\* The parameters are filled, or the call is refused for them.
LEMMA DeserializeInv ==
    ASSUME InvocationInv, NEW tr \in Transports, Deserialize(tr)
    PROVE  InvocationInv'
<1> USE DEF Deserialize, Answer
<1>1. TransportInv(tr) /\ pc[tr] = "params"
  BY DEF InvocationInv
<1>2. Starts /\ objects[tr] = Loaded(tr)
  BY <1>1 DEF TransportInv, Reaches, ObjectsOf
<1>3. DeserializeParams(call.tool.params, Args(tr), objects[tr]) = Deserialized(tr)
  BY <1>2 DEF Deserialized
<1>4. CASE Deserialized(tr) = "ok"
  <2>1. /\ Go(tr, "handler") /\ UNCHANGED <<call, objects, result, files, answer>>
        /\ params' = [params EXCEPT ![tr] = ParamsJSON(call.tool.params, Args(tr))]
    BY <1>3, <1>4
  <2>2. pc'[tr] = "handler" /\ params'[tr] = ParamsJSON(call.tool.params, Args(tr))
    BY <2>1 DEF InvocationInv, Go
  <2>3. Accepts(tr)
    BY <1>2, <1>4 DEF Accepts
  <2>4. TransportInv(tr)'
    BY <1>1, <1>2, <2>1, <2>2, <2>3, CallDecides
       DEF TransportInv, Reaches, ObjectsOf, ParamsOf, ResultOf, FilesOf, AnswerOf
  <2> QED BY <2>1, <2>4, OneTransport DEF InvocationInv, Labels
<1>5. CASE Deserialized(tr) # "ok"
  <2>1. /\ Go(tr, "answered") /\ UNCHANGED <<call, objects, params, result, files>>
        /\ answer' = [answer EXCEPT ![tr] = Error(Deserialized(tr))]
    BY <1>3, <1>5
  <2>2. pc'[tr] = "answered" /\ answer'[tr] = Error(Deserialized(tr))
    BY <2>1 DEF InvocationInv, Go
  <2>3. ~Accepts(tr) /\ ~Returns(tr) /\ Verdict(tr) = Error(Deserialized(tr))
    BY <1>2, <1>5 DEF Accepts, Returns, Starts, Verdict
  <2>4. TransportInv(tr)'
    BY <1>1, <1>2, <1>5, <2>1, <2>2, <2>3, CallDecides
       DEF TransportInv, Reaches, ObjectsOf, ParamsOf, ResultOf, FilesOf, AnswerOf
  <2> QED BY <2>1, <2>4, OneTransport DEF InvocationInv, Labels
<1> QED BY <1>4, <1>5

\* What the handler returns and saves is the call's.
LEMMA HandlerReturnsInv ==
    ASSUME InvocationInv, NEW tr \in Transports, HandlerReturns(tr)
    PROVE  InvocationInv'
<1> USE DEF HandlerReturns, Answer
<1>1. TransportInv(tr) /\ pc[tr] = "handler"
  BY DEF InvocationInv
<1>2. Accepts(tr) /\ files[tr] = [p \in Paths |-> Nothing]
  BY <1>1 DEF TransportInv, Reaches, FilesOf
<1>3. files' = [files EXCEPT ![tr] = SavedFiles]
  <2>1. [p \in Paths |-> IF call.outcome.outputDir /\ p \in call.outcome.saves THEN Saved ELSE files[tr][p]]
        = SavedFiles
    BY <1>2 DEF SavedFiles
  <2> QED BY <2>1
<1>4. files'[tr] = SavedFiles
  BY <1>3 DEF InvocationInv
<1>5. CASE call.outcome.returns \in {"error", "panic"}
  <2>1. /\ Go(tr, "answered") /\ UNCHANGED <<call, objects, params, result>>
        /\ answer' = [answer EXCEPT ![tr] = Error("handler")]
    BY <1>5
  <2>2. pc'[tr] = "answered" /\ answer'[tr] = Error("handler")
    BY <2>1 DEF InvocationInv, Go
  <2>3. ~Returns(tr) /\ Verdict(tr) = Error("handler")
    BY <1>2, <1>5 DEF Accepts, Returns, Starts, Verdict
  <2>4. TransportInv(tr)'
    BY <1>1, <1>2, <1>4, <2>1, <2>2, <2>3, CallDecides
       DEF TransportInv, Reaches, ObjectsOf, ParamsOf, ResultOf, FilesOf, AnswerOf
  <2> QED BY <1>3, <2>1, <2>4, OneTransport DEF InvocationInv, Labels
<1>6. CASE call.outcome.returns \notin {"error", "panic"}
  <2>1. /\ Go(tr, "extract") /\ UNCHANGED <<call, objects, params, answer>>
        /\ result' = [result EXCEPT ![tr] = call.outcome.objects]
    BY <1>6
  <2>2. pc'[tr] = "extract" /\ result'[tr] = call.outcome.objects
    BY <2>1 DEF InvocationInv, Go
  <2>3. Returns(tr)
    BY <1>2, <1>6 DEF Returns
  <2>4. TransportInv(tr)'
    BY <1>1, <1>2, <1>4, <2>1, <2>2, <2>3, CallDecides
       DEF TransportInv, Reaches, ObjectsOf, ParamsOf, ResultOf, FilesOf, AnswerOf
  <2> QED BY <1>3, <2>1, <2>4, OneTransport DEF InvocationInv, Labels
<1> QED BY <1>5, <1>6

\* The extraction leaves what the call's own objects leave.
LEMMA ExtractInv ==
    ASSUME InvocationInv, NEW tr \in Transports, ExtractArtifactOutputs(tr)
    PROVE  InvocationInv'
<1> USE DEF ExtractArtifactOutputs
<1>1. TransportInv(tr) /\ pc[tr] = "extract"
  BY DEF InvocationInv
<1>2. Returns(tr) /\ Accepts(tr) /\ result[tr] = call.outcome.objects /\ files[tr] = SavedFiles
  BY <1>1 DEF TransportInv, Reaches, ResultOf, FilesOf, Returns
<1>3. pc'[tr] = "answer" /\ Go(tr, "answer") /\ UNCHANGED <<call, objects, params, answer>>
  BY DEF InvocationInv, Go
<1>4. /\ result' = [result EXCEPT ![tr] = Left]
      /\ files' = [files EXCEPT ![tr] = IF call.outcome.outputDir
                                        THEN FilesAfter(call.outcome.objects, SavedFiles) ELSE SavedFiles]
  <2>1. CASE call.outcome.outputDir
    BY <1>2, <2>1 DEF Left
  <2>2. CASE ~call.outcome.outputDir
    <3>1. result = [result EXCEPT ![tr] = result[tr]] /\ files = [files EXCEPT ![tr] = files[tr]]
      BY DEF InvocationInv
    <3> QED BY <1>2, <2>2, <3>1 DEF Left
  <2> QED BY <2>1, <2>2
<1>5. /\ result'[tr] = Left
      /\ files'[tr] = IF call.outcome.outputDir
                      THEN FilesAfter(call.outcome.objects, SavedFiles) ELSE SavedFiles
  BY <1>4 DEF InvocationInv
<1>6. FilesAfter(call.outcome.objects, SavedFiles)' = FilesAfter(call.outcome.objects, SavedFiles)
  <2> DEFINE named(p) == {i \in DOMAIN call.outcome.objects :
                             Opened(call.outcome.objects[i]) /\ PathOf[call.outcome.objects[i].name] = p}
             last(p)  == CHOOSE i \in named(p) : \A j \in named(p) : j <= i
             left(p)  == IF named(p) = {} THEN SavedFiles[p]
                         ELSE IF Written(call.outcome.objects[last(p)])
                              THEN call.outcome.objects[last(p)].content ELSE Torn
  <2>1. call' = call /\ SavedFiles' = SavedFiles
    BY <1>3, CallDecides
  <2>2. ASSUME NEW p \in Paths PROVE left(p)' = left(p)
    <3>1. named(p)' = named(p)
      BY <2>1 DEF Opened, ShouldExtractToFile
    <3>2. last(p)' = last(p)
      <4> HIDE DEF named
      <4> QED BY <3>1
    <3> HIDE DEF named, last
    <3> QED BY <2>1, <3>1, <3>2 DEF Written, Opened, ShouldExtractToFile
  <2>3. FilesAfter(call.outcome.objects, SavedFiles) = [p \in Paths |-> left(p)]
    BY DEF FilesAfter
  <2>4. FilesAfter(call.outcome.objects, SavedFiles)' = [p \in Paths |-> left(p)']
    BY DEF FilesAfter
  <2> HIDE DEF left
  <2> QED BY <2>2, <2>3, <2>4
<1>7. TransportInv(tr)'
  BY <1>1, <1>2, <1>3, <1>5, <1>6, CallDecides
     DEF TransportInv, Reaches, ObjectsOf, ParamsOf, ResultOf, FilesOf, AnswerOf
<1> QED BY <1>3, <1>4, <1>7, OneTransport DEF InvocationInv, Labels

\* The answer is the verdict of the call.
LEMMA WriteResultInv ==
    ASSUME InvocationInv, NEW tr \in Transports, WriteResult(tr)
    PROVE  InvocationInv'
<1> USE DEF WriteResult, Answer
<1>1. TransportInv(tr) /\ pc[tr] = "answer"
  BY DEF InvocationInv
<1>2. Returns(tr) /\ Accepts(tr) /\ result[tr] = Left
  BY <1>1 DEF TransportInv, Reaches, ResultOf, Returns
<1>3. Verdict(tr) = WireForm
  BY <1>2 DEF Verdict, Accepts, Starts
<1>4. /\ Go(tr, "answered") /\ UNCHANGED <<call, objects, params, result, files>>
      /\ answer' = [answer EXCEPT ![tr] = Verdict(tr)]
  BY <1>2, <1>3 DEF WireForm
<1>5. pc'[tr] = "answered" /\ answer'[tr] = Verdict(tr)
  BY <1>4 DEF InvocationInv, Go
<1>6. TransportInv(tr)'
  BY <1>1, <1>2, <1>4, <1>5, CallDecides
     DEF TransportInv, Reaches, ObjectsOf, ParamsOf, ResultOf, FilesOf, AnswerOf
<1> QED BY <1>4, <1>6, OneTransport DEF InvocationInv, Labels

Inv == InvocationInv /\ LlmInv

\* The invariant holds before a transport starts.
LEMMA InitInv == Init => Inv
<1> SUFFICES ASSUME Init PROVE Inv
  OBVIOUS
<1>1. LlmInv
  BY LlmInitInv DEF Init
<1>2. ASSUME NEW tr \in Transports PROVE TransportInv(tr)
  BY DEF Init, TransportInv, Reaches, ObjectsOf, ParamsOf, ResultOf, FilesOf, AnswerOf
<1>3. InvocationInv
  BY <1>2 DEF Init, InvocationInv, Labels
<1> QED BY <1>1, <1>3 DEF Inv

\* An invocation is a step of the transports or a step of the client, and to the
\* client a step of a transport is none.
LEMMA NextIsLlmNext == [Next]_vars => [LlmNext]_llm
<1> SUFFICES ASSUME [Next]_vars PROVE [LlmNext]_llm
  OBVIOUS
<1>1. ASSUME NEW tr \in Transports, Step(tr) PROVE UNCHANGED llm
  BY <1>1 DEF Step, FindTool, LoadArtifacts, Deserialize, HandlerReturns,
             ExtractArtifactOutputs, WriteResult
<1>2. ASSUME NEW c \in Callers, HandlerCalls(c) \/ CallStep(c) PROVE LlmNext
  BY <1>2 DEF HandlerCalls, LlmNext
<1>3. CloseContext \/ HostStep => LlmNext
  BY DEF CloseContext, HostStep, LlmNext
<1>4. UNCHANGED vars => UNCHANGED llm
  BY DEF vars
<1> QED BY <1>1, <1>2, <1>3, <1>4 DEF Next

\* Every step keeps the invariant: of one transport, or of a caller or the host.
LEMMA StepInv == Inv /\ [Next]_vars => Inv'
<1> SUFFICES ASSUME Inv, [Next]_vars PROVE Inv'
  OBVIOUS
<1>1. LlmInv'
  BY NextIsLlmNext, LlmStepInv DEF Inv
<1>2. CASE \E tr \in Transports : Step(tr)
  <2>1. InvocationInv'
    BY <1>2, FindToolInv, LoadArtifactsInv, DeserializeInv, HandlerReturnsInv, ExtractInv,
       WriteResultInv DEF Inv, Step
  <2> QED BY <1>1, <2>1 DEF Inv
<1>3. CASE UNCHANGED invocation
  <2>1. \A tr \in Transports : TransportInv(tr)'
    BY <1>3, IdleTransport DEF Inv, InvocationInv, invocation
  <2>2. Calls' = Calls
    BY DEF Calls
  <2>3. InvocationInv'
    BY <1>3, <2>1, <2>2 DEF Inv, InvocationInv, invocation
  <2> QED BY <1>1, <2>3 DEF Inv
<1>4. (\E tr \in Transports : Step(tr)) \/ UNCHANGED invocation
  BY DEF Next, HandlerCalls, CloseContext, HostStep, vars
<1> QED BY <1>2, <1>3, <1>4

\* The invariant always holds.
LEMMA AlwaysInv == Spec => []Inv
BY InitInv, StepInv, PTL DEF Spec

\* The handler's calls of the LLM, with the close of its context, behave as the
\* calls of a client do that knows nothing of the invocation (ipc.go, run.go).
THEOREM CallsAreTheClients == Spec => LlmSpec
<1>1. Init => LlmInit
  BY DEF Init
<1> QED BY <1>1, NextIsLlmNext, PTL DEF Spec, LlmSpec

\* A goroutine of a handler is given the answer to its own request or an error,
\* however the handler and the close of the context go on (ipc.go:82-97).
THEOREM OwnAnswersToHandlers == Spec => []OwnAnswer
BY CallsAreTheClients, AnswersArePaired, PTL

\* The call is one of the calls.
LEMMA CallShape ==
    ASSUME call \in Calls
    PROVE  /\ call.tool \in Tools /\ call.outcome \in call.tool.outcomes
           /\ call.found \in BOOLEAN /\ call.goInts \in BOOLEAN
           /\ call.staging \in Staging(call.tool) /\ call.args \in Arguments(call.tool)
           /\ call.tool.params \in GoTypes /\ call.tool.params.kind \notin {"pointer", "interface"}
           /\ \A n \in DOMAIN call.args : call.args[n] \in JSONValues
<1>1. PICK tool \in Tools :
         call \in [tool : {tool}, found : BOOLEAN, args : Arguments(tool), staging : Staging(tool),
                   goInts : BOOLEAN, outcome : tool.outcomes]
  BY DEF Calls
<1>2. /\ call.tool = tool /\ call.args \in Arguments(tool) /\ call.staging \in Staging(tool)
      /\ call.outcome \in tool.outcomes /\ call.found \in BOOLEAN /\ call.goInts \in BOOLEAN
  BY <1>1
<1>3. \A n \in DOMAIN call.args : call.args[n] \in Values
  BY <1>2 DEF Arguments
<1> QED BY <1>2, <1>3, ToolsAssumption, ArgumentsAssumption

\* The outcome of a call names objects, and has them in a sequence.
LEMMA OutcomeShape ==
    ASSUME call \in Calls
    PROVE  LET given == call.outcome.objects IN
           /\ call.outcome.saves \subseteq Paths
           /\ Len(given) \in Nat /\ DOMAIN given = 1 .. Len(given)
           /\ \A i \in DOMAIN given : given[i].name \in Names /\ PathOf[given[i].name] \in Paths
BY CallShape, ToolsAssumption, NamesAssumption

\* Of some objects there is a last one.
LEMMA LastOne ==
    ASSUME NEW m \in Nat, NEW I \in SUBSET (1 .. m), I # {}
    PROVE  \E k \in I : \A j \in I : j <= k
<1> DEFINE D == [i \in 1 .. m |-> m - i]
<1>1. D \in [1 .. m -> Nat]
  OBVIOUS
<1>2. PICK k \in I : \A j \in I : D[k] <= D[j]
  <2> HIDE DEF D
  <2> QED BY <1>1, Shallowest
<1>3. ASSUME NEW j \in I PROVE j <= k
  <2>1. j \in 1 .. m /\ k \in 1 .. m
    OBVIOUS
  <2>2. D[k] = m - k /\ D[j] = m - j
    BY <2>1
  <2>3. m - k <= m - j
    BY <1>2, <2>2
  <2> HIDE DEF D
  <2> QED BY <2>1, <2>3
<1> QED BY <1>3

\* A file is left by the last object whose name comes to its path, or is as before.
LEMMA FileHasLast ==
    ASSUME NEW objs, NEW before, NEW m \in Nat, DOMAIN objs = 1 .. m, NEW p \in Paths
    PROVE  \/ /\ ~\E i \in DOMAIN objs : Opened(objs[i]) /\ PathOf[objs[i].name] = p
              /\ FilesAfter(objs, before)[p] = before[p]
           \/ \E k \in DOMAIN objs :
                 /\ Opened(objs[k]) /\ PathOf[objs[k].name] = p
                 /\ \A j \in DOMAIN objs : Opened(objs[j]) /\ PathOf[objs[j].name] = p => j <= k
                 /\ FilesAfter(objs, before)[p] = IF Written(objs[k]) THEN objs[k].content ELSE Torn
<1> DEFINE named == {i \in DOMAIN objs : Opened(objs[i]) /\ PathOf[objs[i].name] = p}
<1> DEFINE k == CHOOSE i \in named : \A j \in named : j <= i
<1>1. FilesAfter(objs, before)[p] =
         IF named = {} THEN before[p] ELSE IF Written(objs[k]) THEN objs[k].content ELSE Torn
  BY DEF FilesAfter
<1>2. ASSUME named # {} PROVE k \in named /\ \A j \in named : j <= k
  <2>1. named \in SUBSET (1 .. m)
    OBVIOUS
  <2>2. \E i \in named : \A j \in named : j <= i
    <3> HIDE DEF named
    <3> QED BY <1>2, <2>1, LastOne
  <2> QED BY <2>2
<1> HIDE DEF k
<1> QED BY <1>1, <1>2

-----------------------------------------------------------------------------
(***************************************************************************)
(* The theorems.                                                           *)
(***************************************************************************)

\* Every variable has its type, a transport has an answer exactly when it answered
\* (run.go:153-177), and the mutex is held by the one call that waits for a line.
THEOREM TypeCorrect == Spec => []TypeOK
<1>1. ASSUME Inv PROVE TypeOK
  <2>1. LlmTypeOK /\ \A c \in Callers : stage[c] = "sent" <=> mutex = c
    BY <1>1 DEF Inv, LlmInv, MutexHeld
  <2>2. ASSUME NEW tr \in Transports PROVE pc[tr] = "answered" <=> DOMAIN answer[tr] # {}
    <3>1. answer[tr] = AnswerOf(tr)
      BY <1>1 DEF Inv, InvocationInv, TransportInv
    <3>2. DOMAIN Verdict(tr) # {}
      <4>1. \A why : DOMAIN Error(why) # {}
        BY DEF Error
      <4>2. DOMAIN WireForm # {}
        BY <4>1 DEF WireForm
      <4> QED BY <4>1, <4>2 DEF Verdict
    <3>3. DOMAIN <<>> = {}
      OBVIOUS
    <3> QED BY <3>1, <3>2, <3>3 DEF AnswerOf
  <2>3. ASSUME NEW tr \in Transports PROVE files[tr] \in [Paths -> Contents]
    <3>1. call \in Calls /\ files[tr] = FilesOf(tr)
      BY <1>1 DEF Inv, InvocationInv, TransportInv
    <3>2. Nothing \in Contents /\ Saved \in Contents /\ Torn \in Contents
      BY DEF Contents
    <3>3. ASSUME NEW k \in DOMAIN call.outcome.objects PROVE call.outcome.objects[k].content \in Contents
      BY <3>1, CallShape DEF Contents
    <3>4. SavedFiles \in [Paths -> Contents]
      BY <3>2 DEF SavedFiles
    <3>5. FilesAfter(call.outcome.objects, SavedFiles) \in [Paths -> Contents]
      <4>1. ASSUME NEW p \in Paths PROVE FilesAfter(call.outcome.objects, SavedFiles)[p] \in Contents
        <5>1. /\ Len(call.outcome.objects) \in Nat
              /\ DOMAIN call.outcome.objects = 1 .. Len(call.outcome.objects)
          BY <3>1, OutcomeShape
        <5> QED BY <3>2, <3>3, <3>4, <5>1, FileHasLast
      <4> QED BY <4>1 DEF FilesAfter
    <3> QED BY <3>1, <3>2, <3>4, <3>5 DEF FilesOf
  <2>4. files \in [Transports -> [Paths -> Contents]]
    BY <1>1, <2>3 DEF Inv, InvocationInv
  <2> QED BY <1>1, <2>1, <2>2, <2>4 DEF TypeOK, Inv, InvocationInv, Labels
<1> QED BY <1>1, AlwaysInv, PTL

\* Whatever objects a handler returns, the content of each is in the answer or in
\* the file of its name, unless a later object of that file took its place
\* (run.go:355-381).
THEOREM NoContentLost == Spec => []ContentKept
<1>1. ASSUME Inv PROVE ContentKept
  <2> DEFINE given == call.outcome.objects
             Replaced(p, i) == \E j \in DOMAIN given :
                                  j > i /\ Opened(given[j]) /\ PathOf[given[j].name] = p
  <2> SUFFICES ASSUME NEW tr \in Transports, pc[tr] = "answered", answer[tr].status = "ok"
               PROVE  /\ \A i \in DOMAIN given :
                            \/ answer[tr].objects[i].content = given[i].content
                            \/ files[tr][PathOf[given[i].name]] = given[i].content
                            \/ Replaced(PathOf[given[i].name], i)
                      /\ \A p \in call.outcome.saves :
                            call.outcome.outputDir => files[tr][p] = Saved \/ Replaced(p, 0)
    BY DEF ContentKept
  <2>1. call \in Calls /\ answer[tr] = AnswerOf(tr) /\ files[tr] = FilesOf(tr)
    BY <1>1 DEF Inv, InvocationInv, TransportInv
  <2>2. /\ call.outcome.saves \subseteq Paths
        /\ Len(given) \in Nat /\ DOMAIN given = 1 .. Len(given)
        /\ \A i \in DOMAIN given : PathOf[given[i].name] \in Paths
    BY <2>1, OutcomeShape
  <2>3. Returns(tr) /\ Accepts(tr) /\ answer[tr].objects = Left
    <3>1. answer[tr] = Verdict(tr)
      BY <2>1 DEF AnswerOf
    <3>2. \A why : Error(why).status # "ok"
      BY DEF Error
    <3>3. Accepts(tr) /\ Returns(tr) /\ answer[tr] = WireForm
      BY <3>1, <3>2 DEF Verdict, Accepts, Starts, Returns
    <3> QED BY <3>2, <3>3 DEF WireForm
  <2>4. call.outcome.outputDir => files[tr] = FilesAfter(given, SavedFiles)
    BY <2>1, <2>3 DEF FilesOf
  <2>5. ASSUME NEW i \in DOMAIN given
        PROVE  \/ answer[tr].objects[i].content = given[i].content
               \/ files[tr][PathOf[given[i].name]] = given[i].content
               \/ Replaced(PathOf[given[i].name], i)
    <3>1. CASE ~call.outcome.outputDir \/ ~Written(given[i])
      BY <2>3, <3>1 DEF Left, Remaining
    <3>2. CASE call.outcome.outputDir /\ Written(given[i])
      <4> DEFINE p == PathOf[given[i].name]
      <4>1. PICK k \in DOMAIN given :
               /\ Opened(given[k]) /\ PathOf[given[k].name] = p /\ i <= k
               /\ Written(given[k]) => FilesAfter(given, SavedFiles)[p] = given[k].content
        <5>1. p \in Paths /\ Opened(given[i])
          BY <2>2, <3>2 DEF Written
        <5> QED BY <2>2, <5>1, FileHasLast
      <4>2. CASE k = i
        BY <2>4, <3>2, <4>1, <4>2
      <4>3. CASE k # i
        <5>1. k > i
          BY <2>2, <4>1, <4>3
        <5> QED BY <4>1, <5>1
      <4> QED BY <4>2, <4>3
    <3> QED BY <3>1, <3>2
  <2>6. ASSUME NEW p \in call.outcome.saves, call.outcome.outputDir
        PROVE  files[tr][p] = Saved \/ Replaced(p, 0)
    <3>1. p \in Paths /\ SavedFiles[p] = Saved
      BY <2>2, <2>6 DEF SavedFiles
    <3>2. CASE FilesAfter(given, SavedFiles)[p] = SavedFiles[p]
      BY <2>4, <2>6, <3>1, <3>2
    <3>3. CASE FilesAfter(given, SavedFiles)[p] # SavedFiles[p]
      <4>1. PICK k \in DOMAIN given : Opened(given[k]) /\ PathOf[given[k].name] = p
        BY <2>2, <3>1, <3>3, FileHasLast
      <4>2. k > 0
        BY <2>2
      <4> QED BY <4>1, <4>2
    <3> QED BY <3>2, <3>3
  <2> QED BY <2>5, <2>6
<1> QED BY <1>1, AlwaysInv, PTL

\* What a string holds is a value.
LEMMA HeldValue ==
    ASSUME NEW v \in JSONValues, v.json = "string", v.holds # <<>>
    PROVE  Head(v.holds) \in ShallowerValues(v) /\ Head(v.holds) \in JSONValues /\ Head(v.holds) = v.holds[1]
           /\ 1 \in DOMAIN v.holds
<1>1. v.holds \in Seq(JSONValues) /\ \A i \in DOMAIN v.holds : v.holds[i] \in ShallowerValues(v)
  BY ValueShapes
<1> DEFINE h == v.holds
<1>2. h \in Seq(JSONValues) /\ h # <<>>
  BY <1>1
<1> HIDE DEF h
<1>3. 1 \in DOMAIN h /\ Head(h) = h[1] /\ Head(h) \in JSONValues
  BY <1>2
<1> QED BY <1>1, <1>3 DEF h

\* What is unmarshaled after the arguments went through a file fits the
\* parameters exactly when it does as the host has it.
LEMMA ParsedParams ==
    ASSUME NEW t \in GoTypes, NEW args,
           \A n \in DOMAIN args : args[n] \in JSONValues /\ StaysInRange[args[n]]
    PROVE  LET parsed == [n \in DOMAIN args |-> Parsed[args[n]]] IN
           PropsDecode(Decodes, ParamsJSON(t, parsed), t) = PropsDecode(Decodes, ParamsJSON(t, args), t)
<1> DEFINE parsed == [n \in DOMAIN args |-> Parsed[args[n]]]
           p == ParamsJSON(t, parsed)
           a == ParamsJSON(t, args)
<1>1. DOMAIN p = DOMAIN args \ ArtifactParams(t) /\ DOMAIN a = DOMAIN args \ ArtifactParams(t)
  BY DEF ParamsJSON, CoerceStringifiedComposites, CleanArgs
<1>2. ASSUME NEW n \in DOMAIN a
      PROVE  /\ a[n] \in JSONValues
             /\ p[n] = a[n] \/ (p[n] = Parsed[a[n]] /\ StaysInRange[a[n]])
  <2> DEFINE composite == t.kind = "struct" /\ n \in DOMAIN t.fields /\ IsCompositeKind(t.fields[n].type)
  <2>1. /\ args[n] \in JSONValues /\ parsed[n] = Parsed[args[n]] /\ Parsed[args[n]].json = args[n].json
        /\ args[n].json = "string" => Parsed[args[n]] = args[n]
    <3>1. args[n] \in JSONValues /\ parsed[n] = Parsed[args[n]]
      BY <1>1
    <3>2. Parsed[args[n]] = ParsedStep(Parsed, args[n]) /\ Parsed[args[n]].json = args[n].json
      BY <3>1, ParsedShape
    <3>3. args[n].json = "string" => ParsedStep(Parsed, args[n]) = args[n]
      BY DEF ParsedStep
    <3> QED BY <3>1, <3>2, <3>3
  <2>2. /\ a[n] = IF composite /\ args[n].json = "string" /\ args[n].holds # <<>>
                  THEN Parsed[Head(args[n].holds)] ELSE args[n]
        /\ p[n] = IF composite /\ parsed[n].json = "string" /\ parsed[n].holds # <<>>
                  THEN Parsed[Head(parsed[n].holds)] ELSE parsed[n]
    BY <1>1 DEF ParamsJSON, CoerceStringifiedComposites, CleanArgs, IsStringifiedComposite
  <2>3. CASE composite /\ args[n].json = "string" /\ args[n].holds # <<>>
    <3>1. Head(args[n].holds) \in JSONValues
      BY <2>1, <2>3, HeldValue
    <3> QED BY <2>1, <2>2, <2>3, <3>1, ParsedAssumption
  <2>4. CASE ~(composite /\ args[n].json = "string" /\ args[n].holds # <<>>)
    BY <1>1, <2>1, <2>2, <2>4
  <2> QED BY <2>3, <2>4
<1>3. \A n \in DOMAIN a, u \in GoTypes : Decodes[<<p[n], u>>] = Decodes[<<a[n], u>>]
  BY <1>2, DecodesParsed
<1>4. t.kind = "map" => t.elem \in GoTypes
  BY TypeShapes DEF ShallowerTypes
<1>5. t.kind = "struct" => \A n \in DOMAIN t.fields : t.fields[n].type \in GoTypes
  BY TypeShapes DEF ShallowerTypes
<1> HIDE DEF p, a
<1>6. PropsDecode(Decodes, p, t) = PropsDecode(Decodes, a, t)
  BY <1>1, <1>3, <1>4, <1>5 DEF PropsDecode
<1> QED BY <1>6 DEF p, a

\* Both transports find the same with the arguments of a call.
LEMMA SameDeserialized ==
    ASSUME call \in Calls,
           \/ Args(Subprocess) = Args(InProcess)
           \/ \A n \in DOMAIN call.args : StaysInRange[call.args[n]]
    PROVE  Deserialized(Subprocess) = Deserialized(InProcess)
<1> DEFINE t == call.tool.params
           parsed == [n \in DOMAIN call.args |-> Parsed[call.args[n]]]
<1>1. t \in GoTypes /\ \A n \in DOMAIN call.args : call.args[n] \in JSONValues
  BY CallShape
<1>2. Args(Subprocess) = parsed /\ Args(InProcess) \in {parsed, call.args}
  BY DEF Args, Subprocess, InProcess
<1>3. PropsDecode(Decodes, ParamsJSON(t, Args(Subprocess)), t)
      = PropsDecode(Decodes, ParamsJSON(t, Args(InProcess)), t)
  <2>1. CASE Args(Subprocess) = Args(InProcess)
    BY <2>1
  <2>2. CASE \A n \in DOMAIN call.args : StaysInRange[call.args[n]]
    <3>1. PropsDecode(Decodes, ParamsJSON(t, parsed), t) = PropsDecode(Decodes, ParamsJSON(t, call.args), t)
      <4> HIDE DEF t
      <4> QED BY <1>1, <2>2, ParsedParams
    <3> HIDE DEF t, parsed
    <3> QED BY <1>2, <3>1
  <2> QED BY <2>1, <2>2
<1>4. ASSUME NEW n \in ArtifactParams(t)
      PROVE  Loaded(Subprocess)[n] # <<>> <=> Loaded(InProcess)[n] # <<>>
  BY DEF Loaded
<1> QED BY <1>3, <1>4 DEF Deserialized, DeserializeParams

\* For all types and arguments without an integer at the end of int64, the host gets
\* from InvokeInProcess the answer and the files a subprocess would have left
\* (inprocess.go:53-62, 119).
THEOREM BothTransportsAgree == Spec => []TransportsAgree
<1>1. ASSUME Inv PROVE TransportsAgree
  <2> SUFFICES ASSUME \A tr \in Transports : pc[tr] = "answered"
               PROVE  /\ (call.goInts => \A n \in DOMAIN call.args : StaysInRange[call.args[n]])
                         => answer[Subprocess] = answer[InProcess] /\ files[Subprocess] = files[InProcess]
                      /\ (call.goInts =>
                             /\ \A n \in DOMAIN objects[InProcess] : objects[InProcess][n] = <<>>
                             /\ \A n \in DOMAIN call.args : Exact[call.args[n]])
                         => params[Subprocess] = params[InProcess] /\ objects[Subprocess] = objects[InProcess]
    BY DEF TransportsAgree
  <2>1. call \in Calls /\ Subprocess \in Transports /\ InProcess \in Transports
    BY <1>1 DEF Inv, InvocationInv, Transports
  <2>2. \A tr \in Transports :
           /\ objects[tr] = ObjectsOf(tr) /\ params[tr] = ParamsOf(tr)
           /\ files[tr] = FilesOf(tr) /\ answer[tr] = AnswerOf(tr)
    BY <1>1 DEF Inv, InvocationInv, TransportInv
  <2>3. ASSUME call.goInts => \A n \in DOMAIN call.args : StaysInRange[call.args[n]]
        PROVE  /\ Deserialized(Subprocess) = Deserialized(InProcess)
               /\ Accepts(Subprocess) = Accepts(InProcess) /\ Returns(Subprocess) = Returns(InProcess)
    <3>1. ~call.goInts => Args(Subprocess) = Args(InProcess)
      BY DEF Args
    <3> QED BY <2>1, <2>3, <3>1, SameDeserialized DEF Accepts, Returns
  <2>4. ASSUME call.goInts => \A n \in DOMAIN call.args : StaysInRange[call.args[n]]
        PROVE  answer[Subprocess] = answer[InProcess] /\ files[Subprocess] = files[InProcess]
    <3>1. answer[Subprocess] = answer[InProcess]
      BY <2>1, <2>2, <2>3, <2>4 DEF AnswerOf, Verdict
    <3>2. files[Subprocess] = files[InProcess]
      BY <2>1, <2>2, <2>3, <2>4 DEF FilesOf
    <3> QED BY <3>1, <3>2
  <2>6. ASSUME call.goInts =>
                  /\ \A n \in DOMAIN objects[InProcess] : objects[InProcess][n] = <<>>
                  /\ \A n \in DOMAIN call.args : Exact[call.args[n]]
        PROVE  params[Subprocess] = params[InProcess] /\ objects[Subprocess] = objects[InProcess]
    <3>1. Args(Subprocess) = Args(InProcess)
      <4>1. CASE call.goInts
        <5>1. \A n \in DOMAIN call.args : Parsed[call.args[n]] = call.args[n]
          BY <2>1, <2>6, <4>1, CallShape, ExactIsParsed
        <5>2. call.args = [n \in DOMAIN call.args |-> call.args[n]]
          BY <2>1, CallShape DEF Arguments
        <5> QED BY <4>1, <5>1, <5>2 DEF Args, Subprocess, InProcess
      <4>2. CASE ~call.goInts
        BY <4>2 DEF Args
      <4> QED BY <4>1, <4>2
    <3>2. objects[Subprocess] = objects[InProcess]
      <4>1. CASE ~Starts
        BY <2>1, <2>2, <4>1 DEF ObjectsOf
      <4>2. CASE Starts /\ ~call.goInts
        <5>1. Loaded(Subprocess) = Loaded(InProcess)
          BY <4>2 DEF Loaded, LoadSingleArtifact
        <5> QED BY <2>1, <2>2, <4>2, <5>1 DEF ObjectsOf
      <4>3. CASE Starts /\ call.goInts
        <5>1. objects[InProcess] = Loaded(InProcess) /\ objects[Subprocess] = Loaded(Subprocess)
          BY <2>1, <2>2, <4>3 DEF ObjectsOf
        <5>2. \A n \in ArtifactParams(call.tool.params) : Loaded(InProcess)[n] = <<>>
          BY <2>6, <4>3, <5>1 DEF Loaded
        <5>3. \A n \in ArtifactParams(call.tool.params) : Loaded(Subprocess)[n] = <<>>
          BY <5>2 DEF Loaded
        <5> QED BY <5>1, <5>2, <5>3 DEF Loaded
      <4> QED BY <4>1, <4>2, <4>3
    <3>3. params[Subprocess] = params[InProcess]
      <4>1. Accepts(Subprocess) = Accepts(InProcess)
        BY <2>1, <3>1, SameDeserialized DEF Accepts
      <4> QED BY <2>1, <2>2, <3>1, <4>1 DEF ParamsOf
    <3> QED BY <3>2, <3>3
  <2> QED BY <2>4, <2>6
<1> QED BY <1>1, AlwaysInv, PTL

\* A field the schema says enough about is a composite when the code takes it for one.
LEMMA PlainComposite ==
    ASSUME NEW f, f.type \in GoTypes, SchemaTellsAll[f.type]
    PROVE  IsCompositeKind(f.type) <=> Deref(f.type).kind \in {"slice", "map", "struct"}
<1>1. SchemaTellsAll[Deref(f.type)]
  <2>1. TellsAllStep(SchemaTellsAll, f.type)
    BY SchemaTellsAllUnfolds
  <2> QED BY <2>1 DEF TellsAllStep, Deref, IsPointer
<1>2. TellsAllStep(SchemaTellsAll, Deref(f.type))
  BY <1>1, TypeShapes, SchemaTellsAllUnfolds
<1> QED BY <1>2 DEF TellsAllStep, IsCompositeKind

\* Arguments that conform as they are meant are unmarshaled as they are meant, and fit.
LEMMA MeantArguments ==
    ASSUME NEW t \in GoTypes, NEW args, args = [n \in DOMAIN args |-> args[n]],
           \A n \in DOMAIN args : args[n] \in JSONValues /\ Exact[args[n]],
           PlainParams(t),
           t.kind = "struct" => PropsConform(Conforms, Meant(t, args), StructSchema(GoTypeToSchema, t))
    PROVE  /\ ParamsJSON(t, args) = CleanArgs(t, Meant(t, args))
           /\ PropsDecode(Decodes, ParamsJSON(t, args), t)
<1> DEFINE sent == Meant(t, args)
           a == ParamsJSON(t, args)
<1>1. /\ DOMAIN sent = DOMAIN args
      /\ DOMAIN a = DOMAIN args \ ArtifactParams(t)
      /\ a = [n \in DOMAIN a |-> a[n]]
  BY DEF Meant, ParamsJSON, CoerceStringifiedComposites, CleanArgs
<1>2. CASE t.kind = "map" /\ t.elem.kind = "interface"
  <2>1. ArtifactParams(t) = {}
    BY <1>2 DEF ArtifactParams
  <2>2. \A n \in DOMAIN args : sent[n] = args[n] /\ a[n] = args[n]
    BY <1>2, <2>1 DEF Meant, ParamsJSON, CoerceStringifiedComposites, CleanArgs, IsStringifiedComposite
  <2>3. a = CleanArgs(t, sent)
    <3> HIDE DEF a, sent
    <3> QED BY <1>1, <2>1, <2>2 DEF CleanArgs
  <2>4. t.elem \in GoTypes
    BY <1>2, TypeShapes DEF ShallowerTypes
  <2>5. ASSUME NEW n \in DOMAIN a PROVE Decodes[<<a[n], t.elem>>]
    <3>1. a[n] \in JSONValues
      BY <1>1, <2>2
    <3>2. DecodesStep(Decodes, <<a[n], t.elem>>)
      BY <1>2 DEF DecodesStep, Deref, IsPointer
    <3> QED BY <2>4, <3>1, <3>2, DecodesUnfolds
  <2> QED BY <1>2, <2>3, <2>5 DEF PropsDecode
<1>3. CASE t.kind = "struct" /\ \A n \in DOMAIN t.fields :
             IF IsFlat(t.fields[n]) THEN ~SetArtifactPanics(t.fields[n])
             ELSE SchemaTellsAll[t.fields[n].type]
  <2>1. \A n \in DOMAIN t.fields : t.fields[n].type \in GoTypes
    BY <1>3, TypeShapes DEF ShallowerTypes
  <2>2. ASSUME NEW n \in DOMAIN a
        PROVE  /\ a[n] = sent[n]
               /\ n \in DOMAIN t.fields => Decodes[<<a[n], t.fields[n].type>>]
    <3>1. n \in DOMAIN args /\ n \notin ArtifactParams(t) /\ args[n] \in JSONValues /\ Exact[args[n]]
      BY <1>1
    <3>2. a[n] = IF /\ n \in DOMAIN t.fields /\ IsCompositeKind(t.fields[n].type)
                    /\ args[n].json = "string" /\ args[n].holds # <<>>
                 THEN Parsed[Head(args[n].holds)] ELSE args[n]
      BY <1>3, <3>1 DEF ParamsJSON, CoerceStringifiedComposites, CleanArgs, IsStringifiedComposite
    <3>3. sent[n] = IF /\ n \in DOMAIN t.fields /\ ~IsFlat(t.fields[n])
                       /\ Deref(t.fields[n].type).kind \in {"slice", "map", "struct"}
                       /\ args[n].json = "string" /\ args[n].holds # <<>>
                    THEN Head(args[n].holds) ELSE args[n]
      BY <1>3, <3>1 DEF Meant
    <3>4. CASE n \notin DOMAIN t.fields
      BY <3>2, <3>3, <3>4
    <3>5. CASE n \in DOMAIN t.fields
      <4> DEFINE f == t.fields[n]
      <4>1. ~IsFlat(f) /\ SchemaTellsAll[f.type] /\ f.type \in GoTypes
        BY <1>3, <2>1, <3>1, <3>5 DEF ArtifactParams
      <4>2. a[n] = sent[n] /\ sent[n] \in JSONValues /\ Exact[sent[n]]
        <5>1. IsCompositeKind(f.type) <=> Deref(f.type).kind \in {"slice", "map", "struct"}
          BY <4>1, PlainComposite
        <5>2. ASSUME args[n].json = "string", args[n].holds # <<>>
              PROVE  /\ Head(args[n].holds) \in JSONValues /\ Exact[Head(args[n].holds)]
                     /\ Parsed[Head(args[n].holds)] = Head(args[n].holds)
          <6>1. /\ Head(args[n].holds) \in JSONValues /\ Head(args[n].holds) = args[n].holds[1]
                /\ 1 \in DOMAIN args[n].holds
            BY <3>1, <5>2, HeldValue
          <6>2. ExactStep(Exact, args[n])
            BY <3>1, ExactUnfolds
          <6>3. Exact[args[n].holds[1]]
            BY <5>2, <6>1, <6>2 DEF ExactStep
          <6> QED BY <6>1, <6>3, ExactIsParsed
        <5> QED BY <3>1, <3>2, <3>3, <3>5, <4>1, <5>1, <5>2
      <4>3. Conforms[<<sent[n], FieldSchema(GoTypeToSchema, f)>>]
        BY <1>1, <1>3, <3>1, <3>5 DEF PropsConform, StructSchema
      <4>4. FieldSchema(GoTypeToSchema, f) = GoTypeToSchema[Deref(f.type)]
        BY <4>1, TellsAllFieldSchema
      <4>5. Decodes[<<sent[n], f.type>>]
        BY <4>1, <4>2, <4>3, <4>4, ConformingDecodes
      <4> QED BY <4>2, <4>5
    <3> QED BY <3>4, <3>5
  <2> HIDE DEF a, sent
  <2>3. a = CleanArgs(t, sent)
    BY <1>1, <2>2 DEF CleanArgs
  <2>4. PropsDecode(Decodes, a, t)
    BY <1>3, <2>2 DEF PropsDecode
  <2> QED BY <2>3, <2>4 DEF a, sent
<1> QED BY <1>2, <1>3 DEF PlainParams

\* A number of files is a number.
LEMMA FilenamesType ==
    ASSUME NEW v \in JSONValues
    PROVE  Filenames(v) \in Nat
<1>1. CASE v.json = "array"
  <2>1. v.items \in Seq(ShallowerValues(v))
    BY <1>1, ValuesAssumption DEF IsJSON
  <2>2. IsFiniteSet(DOMAIN v.items)
    <3>1. DOMAIN v.items = 1 .. Len(v.items) /\ Len(v.items) \in Nat
      BY <2>1
    <3>2. 1 \in Int /\ Len(v.items) \in Int
      BY <3>1
    <3>3. IsFiniteSet(1 .. Len(v.items))
      BY <3>2, FS_Interval
    <3> QED BY <3>1, <3>3
  <2>3. Cardinality({i \in DOMAIN v.items : v.items[i].json = "string"}) \in Nat
    BY <2>2, FS_Subset, FS_CardinalityType
  <2> QED BY <1>1, <2>3 DEF Filenames
<1>2. CASE v.json # "array"
  BY <1>2 DEF Filenames
<1> QED BY <1>1, <1>2

\* Arguments that conform to the schema of a tool, of types of any depth, are not
\* refused and reach the handler as they were meant (tool.go:292-301, schema.go:55-76).
THEOREM SchemaHonoured == Spec => []SchemaIsHonoured
<1>1. ASSUME Inv PROVE SchemaIsHonoured
  <2> DEFINE t == call.tool.params
             sent == Meant(t, call.args)
  <2> SUFFICES ASSUME call.found, call.staging = "all", PlainParams(t),
                      t.kind = "struct" => call.tool.shown = t,
                      PropsConform(Conforms, sent, SchemaOutput(call.tool).parameters),
                      \A n \in DOMAIN call.args : Exact[call.args[n]],
                      NEW tr \in Transports
               PROVE  /\ ~RefusedParams(tr)
                      /\ pc[tr] \notin {"find", "load", "params"} =>
                            /\ params[tr] = CleanArgs(t, sent)
                            /\ \A n \in ArtifactParams(t) :
                                  Len(objects[tr][n]) =
                                     IF n \in DOMAIN call.args THEN Filenames(call.args[n]) ELSE 0
    BY DEF SchemaIsHonoured
  <2>1. /\ call \in Calls /\ objects[tr] = ObjectsOf(tr) /\ params[tr] = ParamsOf(tr)
        /\ answer[tr] = AnswerOf(tr)
    BY <1>1 DEF Inv, InvocationInv, TransportInv
  <2>2. /\ t \in GoTypes /\ \A n \in DOMAIN call.args : call.args[n] \in JSONValues
        /\ call.args = [n \in DOMAIN call.args |-> call.args[n]]
    BY <2>1, CallShape DEF Arguments
  <2>3. Args(tr) = call.args
    <3>1. \A n \in DOMAIN call.args : Parsed[call.args[n]] = call.args[n]
      BY <2>2, ExactIsParsed
    <3> QED BY <2>2, <3>1 DEF Args
  <2>4. t.kind = "struct" => PropsConform(Conforms, sent, StructSchema(GoTypeToSchema, t))
    BY DEF SchemaOutput, SchemaFromStruct
  <2>5. /\ ParamsJSON(t, call.args) = CleanArgs(t, sent)
        /\ PropsDecode(Decodes, ParamsJSON(t, call.args), t)
    <3> HIDE DEF t
    <3> QED BY <2>2, <2>4, MeantArguments DEF t
  <2>6. \A n \in ArtifactParams(t) :
           n \in DOMAIN t.fields /\ t.kind = "struct" /\ IsFlat(t.fields[n]) /\ ~SetArtifactPanics(t.fields[n])
    BY DEF ArtifactParams, PlainParams
  <2>7. ~LoadFails
    <3>1. ASSUME NEW n \in ArtifactParams(t), ParamKind(t.fields[n]) = "artifact", ~IsOptional(t.fields[n])
          PROVE  Staged(n) = 1
      <4>1. /\ n \in DOMAIN sent /\ DOMAIN sent = DOMAIN call.args
            /\ Conforms[<<sent[n], [type |-> "string"]>>]
        BY <2>4, <2>6, <3>1 DEF PropsConform, StructSchema, FieldSchema, Meant
      <4>2. sent[n] = call.args[n]
        BY <2>6, <4>1 DEF Meant
      <4>3. ConformsStep(Conforms, <<call.args[n], [type |-> "string"]>>)
        BY <2>2, <4>1, <4>2, ConformsUnfolds DEF Schemas
      <4>4. call.args[n].json = "string"
        BY <4>3 DEF ConformsStep
      <4> QED BY <4>1, <4>4 DEF Staged, Filenames
    <3> QED BY <3>1 DEF LoadFails
  <2>8. Starts /\ Accepts(tr)
    BY <2>3, <2>5, <2>6, <2>7 DEF Starts, Accepts, Deserialized, DeserializeParams
  <2>9. ~RefusedParams(tr)
    <3>1. Verdict(tr) \in {Error("handler"), WireForm}
      BY <2>7, <2>8 DEF Verdict, Accepts
    <3>2. Verdict(tr).status = "error" => Verdict(tr).why \in {"handler", "marshal"}
      BY <3>1 DEF WireForm, Error
    <3> QED BY <2>1, <3>2 DEF RefusedParams, AnswerOf
  <2>10. ASSUME pc[tr] \notin {"find", "load", "params"}
         PROVE  /\ params[tr] = CleanArgs(t, sent)
                /\ \A n \in ArtifactParams(t) :
                      Len(objects[tr][n]) =
                         IF n \in DOMAIN call.args THEN Filenames(call.args[n]) ELSE 0
    <3>1. params[tr] = CleanArgs(t, sent)
      BY <2>1, <2>3, <2>5, <2>8, <2>10 DEF ParamsOf
    <3>2. ASSUME NEW n \in ArtifactParams(t)
          PROVE  Len(objects[tr][n]) = IF n \in DOMAIN call.args THEN Filenames(call.args[n]) ELSE 0
      <4>1. objects[tr][n] = [i \in 1 .. Staged(n) |-> LoadSingleArtifact(tr)]
        BY <2>1, <2>8, <2>10 DEF ObjectsOf, Loaded
      <4>2. Staged(n) = IF n \in DOMAIN call.args THEN Filenames(call.args[n]) ELSE 0
        BY DEF Staged
      <4>3. Staged(n) \in Nat
        BY <2>2, <4>2, FilenamesType
      <4> HIDE DEF t
      <4>4. Len([i \in 1 .. Staged(n) |-> LoadSingleArtifact(tr)]) = Staged(n)
        BY <4>3
      <4> QED BY <4>1, <4>2, <4>4
    <3> QED BY <3>1, <3>2
  <2> QED BY <2>9, <2>10
<1> QED BY <1>1, AlwaysInv, PTL
=============================================================================
