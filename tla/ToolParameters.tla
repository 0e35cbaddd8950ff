---------------------------- MODULE ToolParameters ----------------------------
(***************************************************************************)
(* What the Go SDK makes of a tool's parameter struct: the JSON schema it  *)
(* gives out, the artifacts it loads, and how it fills the struct from the *)
(* arguments of a call (schema.go, tool.go).                               *)
(*                                                                         *)
(* A Go type is a record of its kind with elem (slices, arrays, maps and   *)
(* pointers) or fields (structs); a field has a type and the tags the SDK  *)
(* looks at.  All integer kinds are 64 bits wide, every field is exported  *)
(* and named by its JSON name, and pointers point to no pointers.          *)
(*                                                                         *)
(* A JSON value is a record: null, boolean, a number of one of the classes *)
(* below, a string (which holds the text of at most one JSON array or      *)
(* object), an array of items or an object of props.                       *)
(*                                                                         *)
(* Types and values are data handed to the module with the parts they are  *)
(* made of and a depth that decreases from a value to its parts, so that   *)
(* what the code does recursively is a recursive function.                 *)
(***************************************************************************)
EXTENDS Naturals, Sequences, FiniteSets

CONSTANTS
    GoTypes,    \* the types of parameters and the types they are made of
    TypeDepth,  \* how deep each type is nested
    JSONValues, \* the values of arguments and the values they are made of
    ValueDepth  \* how deep each value is nested

\* "wide": an int64 that no float64 holds exactly, and "rounded" the whole number
\* that is written for the float64 next to it; "edge": a wide number so near to an
\* end of int64 (at most 512 away) that this number lies beyond; "huge": a whole
\* number beyond int64.
NumberClass == {"whole", "fraction", "wide", "rounded", "edge", "huge"}

Null == [json |-> "null"]

ShallowerTypes(t)  == {u \in GoTypes : TypeDepth[u] < TypeDepth[t]}
ShallowerValues(v) == {w \in JSONValues : ValueDepth[w] < ValueDepth[v]}

IsGoType(t) ==
    \/ t.kind \in {"string", "integer", "number", "boolean", "interface", "artifact"}
    \/ t.kind \in {"slice", "array", "map"} /\ t.elem \in ShallowerTypes(t)
    \/ t.kind = "pointer" /\ t.elem \in ShallowerTypes(t) /\ t.elem.kind # "pointer"
    \/ /\ t.kind = "struct"
       /\ \A n \in DOMAIN t.fields :
             t.fields[n] \in [type : ShallowerTypes(t), omitempty : BOOLEAN, filename : BOOLEAN]

IsJSON(v) ==
    \/ v.json \in {"null", "boolean"}
    \/ v.json = "number" /\ v.n \in NumberClass /\ v = [json |-> "number", n |-> v.n]
    \/ v.json = "string" /\ v.holds \in Seq(ShallowerValues(v))
    \/ /\ v.json = "array" /\ v.items \in Seq(ShallowerValues(v))
       /\ v = [json |-> "array", items |-> v.items]
    \/ /\ v.json = "object" /\ v.props \in [DOMAIN v.props -> ShallowerValues(v)]
       /\ v = [json |-> "object", props |-> v.props]

ASSUME TypesAssumption  == TypeDepth \in [GoTypes -> Nat] /\ \A t \in GoTypes : IsGoType(t)
ASSUME ValuesAssumption == ValueDepth \in [JSONValues -> Nat] /\ \A v \in JSONValues : IsJSON(v)

IsPointer(t) == t.kind = "pointer"
Deref(t)     == IF IsPointer(t) THEN t.elem ELSE t
-----------------------------------------------------------------------------
(***************************************************************************)
(* The schema.                                                             *)
(***************************************************************************)

IsArtifactType(t) == t.kind = "artifact"

\* The one string field tagged as the name of an artifact, if there is one.
FilenameTagField(t) ==
    LET tagged == {n \in DOMAIN t.fields :
                      t.fields[n].filename /\ t.fields[n].type.kind = "string"}
    IN IF t.kind = "struct" /\ Cardinality(tagged) = 1 THEN tagged ELSE {}

IsStructuredArtifactList(t) == t.kind = "slice" /\ FilenameTagField(t.elem) # {}

IsOptional(f) == IsPointer(f.type) \/ f.omitempty

\* How a field is handled: a flat artifact, a flat list, a structured list, or JSON.
ParamKind(f) ==
    LET e == Deref(f.type) IN
    CASE IsArtifactType(e)                          -> "artifact"
      [] e.kind = "slice" /\ IsArtifactType(e.elem) -> "list"
      [] IsStructuredArtifactList(e)                -> "structured"
      [] OTHER                                      -> "regular"

IsFlat(f) == ParamKind(f) \in {"artifact", "list"}

\* The parameters to load artifacts for; none of a nested struct is among them.
ArtifactParams(t) ==
    IF t.kind # "struct" THEN {} ELSE {n \in DOMAIN t.fields : IsFlat(t.fields[n])}

AnyObject == [type |-> "object", properties |-> <<>>, required |-> {}]

\* A field, in terms of the schemas of less deep types.
FieldSchema(schemaOf, f) ==
    CASE ParamKind(f) = "artifact" -> [type |-> "string"]
      [] ParamKind(f) = "list"     -> [type |-> "array", items |-> [type |-> "string"]]
      [] OTHER                     -> schemaOf[Deref(f.type)]

StructSchema(schemaOf, t) ==
    [type       |-> "object",
     properties |-> [n \in DOMAIN t.fields |-> FieldSchema(schemaOf, t.fields[n])],
     required   |-> {n \in DOMAIN t.fields : ~IsOptional(t.fields[n])}]

\* An artifact deeper inside than FieldSchema looks is a struct like any other:
\* its own fields are left out.
GoTypeToSchema[t \in GoTypes] ==
    CASE t.kind \in {"string", "integer", "number", "boolean"} -> [type |-> t.kind]
      [] t.kind = "slice"               -> [type |-> "array", items |-> GoTypeToSchema[t.elem]]
      [] t.kind \in {"map", "artifact"} -> AnyObject
      [] t.kind = "struct"              -> StructSchema(GoTypeToSchema, t)
      [] t.kind = "pointer"             -> GoTypeToSchema[t.elem]
      [] OTHER                          -> [type |-> "string"]

SchemaFromStruct(t) ==
    IF t.kind # "struct" THEN AnyObject ELSE StructSchema(GoTypeToSchema, t)

Schemas ==
    {GoTypeToSchema[t] : t \in GoTypes}
    \union {AnyObject, [type |-> "string"], [type |-> "array", items |-> [type |-> "string"]]}

\* Whether the members of an object conform, in terms of what conforms to what.
PropsConform(conforms, props, s) ==
    /\ s.required \subseteq DOMAIN props
    /\ \A n \in DOMAIN props \intersect DOMAIN s.properties :
          conforms[<<props[n], s.properties[n]>>]

\* Whether a JSON value conforms to a schema.
Conforms[p \in JSONValues \X Schemas] ==
    LET v == p[1]  s == p[2] IN
    /\ v.json = IF s.type = "integer" THEN "number" ELSE s.type
    /\ s.type = "integer" => v.n # "fraction"
    /\ s.type = "array"   => \A i \in DOMAIN v.items : Conforms[<<v.items[i], s.items>>]
    /\ s.type = "object"  => PropsConform(Conforms, v.props, s)
-----------------------------------------------------------------------------
(***************************************************************************)
(* The arguments.                                                          *)
(***************************************************************************)

\* A number parsed into a float64, as it is written afterwards: the int64
\* 9223372036854775807 becomes 9223372036854776000.
ParsedNumber(n) ==
    CASE n = "wide" -> "rounded"
      [] n = "edge" -> "huge"
      [] OTHER      -> n

\* A value parsed into interface{}: every number has become a float64.
Parsed[v \in JSONValues] ==
    CASE v.json = "number" -> [json |-> "number", n |-> ParsedNumber(v.n)]
      [] v.json = "array"  ->
            [json |-> "array", items |-> [i \in DOMAIN v.items |-> Parsed[v.items[i]]]]
      [] v.json = "object" ->
            [json |-> "object", props |-> [n \in DOMAIN v.props |-> Parsed[v.props[n]]]]
      [] OTHER             -> v

ASSUME ParsedAssumption == \A v \in JSONValues : Parsed[v] \in JSONValues

\* FAULTY VARIANT of IsCompositeKind: a pointer to a composite is not one.
IsCompositeUnlessPointer(t) == t.kind \in {"slice", "array", "map", "struct", "artifact"}

IsCompositeKind(t) == Deref(t).kind \in {"slice", "array", "map", "struct", "artifact"}

\* The argument n of a struct t when it is the text of an array or object.
IsStringifiedComposite(t, args, n) ==
    /\ t.kind = "struct"
    /\ n \in DOMAIN t.fields
    /\ IsCompositeKind(t.fields[n].type)
    /\ args[n].json = "string"
    /\ args[n].holds # <<>>

CoerceStringifiedComposites(t, args) ==
    [n \in DOMAIN args |->
        IF IsStringifiedComposite(t, args, n) THEN Parsed[Head(args[n].holds)] ELSE args[n]]

CleanArgs(t, args) ==
    [n \in DOMAIN args \ ArtifactParams(t) |-> args[n]]

\* Whether encoding/json stores the members of an object in a variable of type t,
\* in terms of what it stores where; the fields of an artifact are left out.
PropsDecode(decodes, props, t) ==
    \/ t.kind = "artifact"
    \/ t.kind = "map" /\ \A n \in DOMAIN props : decodes[<<props[n], t.elem>>]
    \/ /\ t.kind = "struct"
       /\ \A n \in DOMAIN props \intersect DOMAIN t.fields :
             decodes[<<props[n], t.fields[n].type>>]

\* Whether encoding/json stores a value in a variable of a type.
Decodes[p \in JSONValues \X GoTypes] ==
    LET v == p[1]  t == Deref(p[2]) IN
    \/ v.json = "null" \/ t.kind = "interface"
    \/ t.kind \in {"string", "number", "boolean"} /\ v.json = t.kind
    \/ t.kind = "integer" /\ v.json = "number" /\ v.n \notin {"fraction", "huge"}
    \/ /\ t.kind \in {"slice", "array"} /\ v.json = "array"
       /\ \A i \in DOMAIN v.items : Decodes[<<v.items[i], t.elem>>]
    \/ v.json = "object" /\ PropsDecode(Decodes, v.props, t)

\* What deserializeParams unmarshals.
ParamsJSON(t, args) == CoerceStringifiedComposites(t, CleanArgs(t, args))

\* reflect panics when it sets an Artifact to the pointer of an optional one.
SetArtifactPanics(f) ==
    ParamKind(f) = "artifact" /\ IsOptional(f) /\ ~IsPointer(f.type)

DeserializeParams(t, args, objects) ==
    CASE ~PropsDecode(Decodes, ParamsJSON(t, args), t)                   -> "error"
      [] \E n \in ArtifactParams(t) :
            objects[n] # <<>> /\ SetArtifactPanics(t.fields[n])          -> "panic"
      [] OTHER                                                           -> "ok"
-----------------------------------------------------------------------------
(***************************************************************************)
(* What the schema promises, and where it does not say enough.             *)
(***************************************************************************)

\* A value the schema of a type allows is one the type can hold: not for fixed
\* arrays (shown as strings), for maps of anything but interface{} (shown as
\* objects), or for artifacts inside a nested struct (shown as file names).
SchemaTellsAll[t \in GoTypes] ==
    /\ t.kind \notin {"array", "artifact"}
    /\ t.kind = "map"                  => t.elem.kind = "interface"
    /\ t.kind \in {"slice", "pointer"} => SchemaTellsAll[t.elem]
    /\ t.kind = "struct" => \A n \in DOMAIN t.fields : SchemaTellsAll[t.fields[n].type]

\* The parameters for which the schema is a promise: a map takes every object.
PlainParams(t) ==
    \/ t.kind = "map" /\ t.elem.kind = "interface"
    \/ /\ t.kind = "struct"
       /\ \A n \in DOMAIN t.fields :
             IF IsFlat(t.fields[n]) THEN ~SetArtifactPanics(t.fields[n])
             ELSE SchemaTellsAll[t.fields[n].type]

\* A value whose numbers an int64 and a float64 both hold.
Exact[v \in JSONValues] ==
    /\ v.json = "number" => v.n \in {"whole", "fraction"}
    /\ v.json = "array"  => \A i \in DOMAIN v.items : Exact[v.items[i]]
    /\ v.json = "object" => \A n \in DOMAIN v.props : Exact[v.props[n]]
    /\ v.json = "string" => \A i \in DOMAIN v.holds : Exact[v.holds[i]]

\* A value none of whose numbers leaves int64 when it is parsed into a float64; the
\* text of a composite is parsed by either transport.
StaysInRange[v \in JSONValues] ==
    /\ v.json = "number" => v.n # "edge"
    /\ v.json = "array"  => \A i \in DOMAIN v.items : StaysInRange[v.items[i]]
    /\ v.json = "object" => \A n \in DOMAIN v.props : StaysInRange[v.props[n]]

\* The arguments as their sender means them, composites not wrapped in strings.
Meant(t, args) ==
    [n \in DOMAIN args |->
        IF /\ t.kind = "struct" /\ n \in DOMAIN t.fields
           /\ ~IsFlat(t.fields[n])
           /\ Deref(t.fields[n].type).kind \in {"slice", "map", "struct"}
           /\ args[n].json = "string" /\ args[n].holds # <<>>
        THEN Head(args[n].holds) ELSE args[n]]
=============================================================================
