--------------------------- MODULE MCToolInvocation ---------------------------
(***************************************************************************)
(* Small instances of ToolInvocation for TLC: parameter structs of one     *)
(* field for every kind of type, plain, as a pointer and with omitempty;   *)
(* one with two fields; a tool whose schema is dynamic; one that calls the *)
(* LLM; and one for every shape of result.                                 *)
(***************************************************************************)
EXTENDS ToolInvocation

Type(kind)           == [kind |-> kind]
Of(kind, elem)       == [kind |-> kind, elem |-> elem]
Field(type)          == [type |-> type, omitempty |-> FALSE, filename |-> FALSE]
Tagged(type)         == [type |-> type, omitempty |-> FALSE, filename |-> TRUE]
Struct(fields)       == [kind |-> "struct", fields |-> fields]

Clip == Struct([b |-> Tagged(Type("string")), c |-> Field(Of("pointer", Type("integer")))])
Pair == Struct([b |-> Field(Type("string")), c |-> Field(Of("pointer", Of("slice", Type("integer"))))])

FieldTypes ==
    {Type(k) : k \in {"string", "integer", "number", "boolean", "interface", "artifact"}}
    \union {Of("slice", Type(k)) : k \in {"string", "integer", "artifact"}}
    \union {Of("slice", Of("pointer", Type("integer"))), Of("slice", Clip),
            Of("array", Type("integer")),
            Of("map", Type("integer")), Of("map", Type("interface")),
            Pair, Struct([b |-> Field(Type("artifact"))])}

Fields == {[type |-> t, omitempty |-> o, filename |-> FALSE] :
              t \in FieldTypes \union {Of("pointer", u) : u \in FieldTypes}, o \in BOOLEAN}

-----------------------------------------------------------------------------
Object(props) == [json |-> "object", props |-> props]
Array(items)  == [json |-> "array", items |-> items]
Text(held)    == [json |-> "string", holds |-> held]
Number(n)     == [json |-> "number", n |-> n]

Composites ==
    {Array(<<>>), Array(<<Number("whole")>>), Array(<<Number("wide"), Number("fraction")>>),
     Array(<<Number("edge")>>),
     Array(<<Text(<<>>), Text(<<>>)>>), Array(<<Object([b |-> Text(<<>>), c |-> Number("whole")])>>),
     Object([b |-> Text(<<>>)]), Object([b |-> Number("whole")]),
     Object([b |-> Text(<<>>), c |-> Array(<<Number("whole")>>)])}

SmallValues ==
    {Null, [json |-> "boolean"], Text(<<>>)}
    \union {Number(n) : n \in NumberClass \ {"rounded"}}
    \union Composites \union {Text(<<v>>) : v \in Composites}

-----------------------------------------------------------------------------
Outcome(returns, objs) ==
    [returns |-> returns, objects |-> objs, marshals |-> TRUE,
     saves |-> {}, outputDir |-> TRUE, waits |-> TRUE]

Plain == Outcome("result", <<>>)

Tool(struct, outcomes) ==
    [params |-> struct, shown |-> struct, calls |-> FALSE, outcomes |-> outcomes]

DataObjects ==
    [name : {"", "x", "./x", "bad"}, disposition : {"artifact", "inline"}, content : {Nothing, "c1"}]

\* A second object for the file x, and one of which x holds only a part.
Seconds == [name : {"x", ".//x"}, disposition : {"artifact"}, content : {"c2"}]

Shapes == {<<>>} \union {<<o>> : o \in DataObjects \union Seconds}
          \union {<<o, s>> : o \in DataObjects, s \in Seconds}

SmallPaths == [n \in {"", "x", "./x", ".//x", "bad"} |-> IF n \in {"", "bad"} THEN n ELSE "x"]

Results ==
    {Outcome(r, <<>>) : r \in {"error", "panic", "nil"}}
    \union [returns : {"result"}, objects : Shapes, marshals : BOOLEAN,
            saves : {{}, {"x"}}, outputDir : BOOLEAN, waits : {TRUE}]

SmallTools ==
    {Tool(Struct([a |-> f]), {Plain}) : f \in Fields}
    \union {Tool(Struct(<<>>), {r}) : r \in Results}
    \union {Tool(Struct([a |-> Field(Of("pointer", Type("artifact"))),
                         d |-> Field(Of("slice", Type("string")))]), {Plain}),
            [params |-> Of("map", Type("interface")), shown |-> Pair,
             calls |-> FALSE, outcomes |-> {Plain}],
            [params |-> Struct(<<>>), shown |-> Struct(<<>>), calls |-> TRUE,
             outcomes |-> {Plain, [Plain EXCEPT !.waits = FALSE]}]}
-----------------------------------------------------------------------------
\* What a type or a value is made of, and how deep it is.
ComponentsOf(x) ==
    CASE "elem" \in DOMAIN x   -> {x.elem}
      [] "fields" \in DOMAIN x -> {x.fields[n].type : n \in DOMAIN x.fields}
      [] "items" \in DOMAIN x  -> {x.items[i] : i \in DOMAIN x.items}
      [] "props" \in DOMAIN x  -> {x.props[n] : n \in DOMAIN x.props}
      [] "holds" \in DOMAIN x  -> {x.holds[i] : i \in DOMAIN x.holds}
      [] OTHER                 -> {}

MaxDepth == 6

\* What is found at each depth of some types or values.
AtDepth(xs) ==
    LET level[n \in 0 .. MaxDepth] ==
            IF n = 0 THEN xs ELSE UNION {ComponentsOf(x) : x \in level[n - 1]}
    IN level

WithComponents(xs) == UNION {AtDepth(xs)[n] : n \in 0 .. MaxDepth}

DepthOf(x) == CHOOSE n \in 0 .. MaxDepth - 1 : AtDepth({x})[n] # {} /\ AtDepth({x})[n + 1] = {}

SmallTypes == WithComponents({tool.params : tool \in SmallTools} \union {tool.shown : tool \in SmallTools})

\* With what a parser makes of the values that hold a wide integer.
SmallJSON ==
    WithComponents(SmallValues \union {Number("rounded"), Array(<<Number("huge")>>),
                                       Array(<<Number("rounded"), Number("fraction")>>)})

DepthOfType  == [t \in SmallTypes |-> DepthOf(t)]
DepthOfValue == [v \in SmallJSON |-> DepthOf(v)]
=============================================================================
