-------------------------------- MODULE JsonArguments --------------------------------
(***************************************************************************)
(* The arguments and results of addon operations as JSON: the schema that  *)
(* an invocation's arguments must meet, the python values they are parsed  *)
(* to, and the JSON that a result dataclass is written as.                 *)
(*                                                                         *)
(* A python or JSON value is a pair of what it is and the value itself.  A *)
(* member of an enum is known by its value; JSON has its name.  A list is  *)
(* a function on whatever tells its items apart.  As in ItemIds an         *)
(* operator that may raise is a set with at most one member.               *)
(*                                                                         *)
(* The code follows annotations recursively.  Here an operator for one     *)
(* annotation is given the operator for those inside of it, and applied as *)
(* often as the declared operations nest them.                             *)
(***************************************************************************)
EXTENDS Naturals, Sequences, FiniteSets

NoneValue == <<"None", "None">>
Str(tokens) == <<"str", tokens>>
Bool(b) == <<"bool", b>>
Enum(value) == <<"enum", value>>
List(values) == <<"list", values>>
Object(fields) == <<"object", fields>>

Is(v, what) == v[1] = what

(***************************************************************************)
(* Type annotations, unwrapped: a type, what it contains, whether it may   *)
(* be None.  A dataclass contains its fields, an enum the names of its     *)
(* members, a collection the annotation of its items.                      *)
(***************************************************************************)
Plain(type) == [type |-> type, of |-> NoneValue, optional |-> FALSE]
Optional(a) == [a EXCEPT !.optional = TRUE]
CollectionOf(a) == [type |-> "list", of |-> a, optional |-> FALSE]
Dataclass(fields) == [type |-> "dataclass", of |-> fields, optional |-> FALSE]
EnumOf(names) == [type |-> "enum", of |-> names, optional |-> FALSE]

(* A parameter of a function or a field of a dataclass: its default, if it has one. *)
Param(a) == [annotation |-> a, default |-> {}]
ParamOr(a, default) == [annotation |-> a, default |-> {default}]

RequiredNames(signature) == {n \in DOMAIN signature : signature[n].default = {}}

(* Each part that does not raise, or nothing when one does. *)
AllOf(names, part(_)) ==
    IF \E n \in names : part(n) = {} THEN {}
    ELSE {[n \in names |-> CHOOSE v \in part(n) : TRUE]}

(* For what is inside of a plain value: nothing. *)
Nothing(a, v) == {}

(***************************************************************************)
(* Writing JSON.                                                           *)
(***************************************************************************)
(* Mutant: the member's value instead of its name. *)
JsonForEnumByValue(names, v) ==
    IF Is(v, "enum") /\ v[2] \in DOMAIN names THEN {Str(<<v[2]>>)} ELSE {}

JsonForEnum(names, v) ==
    IF Is(v, "enum") /\ v[2] \in DOMAIN names THEN {Str(<<names[v[2]]>>)} ELSE {}

(* In each of the following the operator in front stands for the calls that the   *)
(* code makes for what is inside of the value.                                    *)
KwargsAsJson(Json(_, _), signature, kwargs) ==
    {Object(json) : json \in
        AllOf(DOMAIN kwargs \cap DOMAIN signature,
              LAMBDA n : Json(signature[n].annotation, kwargs[n]))}

(* Fields that have the value of their default are left out. *)
DataclassAsJson(Json(_, _), signature, instance) ==
    KwargsAsJson(Json, signature,
                 [n \in {n \in DOMAIN instance : instance[n] \notin signature[n].default} |-> instance[n]])

ValueAsJson(Json(_, _), a, v) ==
    CASE Is(v, "None") -> IF a.optional THEN {NoneValue} ELSE {}
      [] ~Is(v, "None") /\ a.type = "dataclass" ->
            IF Is(v, "object") THEN DataclassAsJson(Json, a.of, v[2]) ELSE {}
      [] ~Is(v, "None") /\ a.type = "enum" -> JsonForEnum(a.of, v)
      [] ~Is(v, "None") /\ a.type \in {"str", "bool"} -> IF Is(v, a.type) THEN {v} ELSE {}
      [] ~Is(v, "None") /\ a.type = "list" ->
            IF Is(v, "list")
            THEN {List(json) : json \in AllOf(DOMAIN v[2], LAMBDA k : Json(a.of, v[2][k]))}
            ELSE {}

(* A result is a dataclass with a collection of dataclasses with plain fields. *)
JsonForField(a, v) == ValueAsJson(Nothing, a, v)
JsonForDataclass(a, v) == ValueAsJson(JsonForField, a, v)
JsonForCollection(a, v) == ValueAsJson(JsonForDataclass, a, v)
JsonForTypedValue(a, v) == ValueAsJson(JsonForCollection, a, v)

(***************************************************************************)
(* The schema.  It does not know that a parameter may be None.             *)
(***************************************************************************)
ObjectMeets(Meets(_, _), signature, json) ==
    /\ DOMAIN json \subseteq DOMAIN signature
    /\ RequiredNames(signature) \subseteq DOMAIN json
    /\ \A n \in DOMAIN json : Meets(signature[n].annotation, json[n])

MeetsAnnotation(Meets(_, _), a, json) ==
    CASE a.type = "list"      -> Is(json, "list") /\ \A k \in DOMAIN json[2] : Meets(a.of, json[2][k])
      [] a.type = "dataclass" -> Is(json, "object") /\ ObjectMeets(Meets, a.of, json[2])
      [] a.type = "enum"      -> Is(json, "str") /\ \E value \in DOMAIN a.of : json[2] = <<a.of[value]>>
      [] OTHER                -> Is(json, a.type)

(* The parameters of operations are plain. *)
MeetsProperty(a, json) == MeetsAnnotation(LAMBDA b, v : FALSE, a, json)

MeetsSchema(signature, json) == ObjectMeets(MeetsProperty, signature, json)

(***************************************************************************)
(* Parsing JSON.  A name of an enum's member is lowered and taken for the  *)
(* member's value.                                                         *)
(***************************************************************************)
Lower(tokens) ==
    CASE tokens = <<"FILE">> -> "file"
      [] tokens = <<"FOLDER">> -> "folder"
      [] tokens = <<"RESOURCE">> -> "resource"
      [] tokens = <<"DOCUMENT">> -> "document"
      [] tokens = <<"COLLECTION">> -> "collection"
      [] OTHER -> "?"

(* No unknown names, and every required one. *)
KwargsOfJson(Parsed(_, _), signature, json) ==
    IF DOMAIN json \subseteq DOMAIN signature /\ RequiredNames(signature) \subseteq DOMAIN json
    THEN AllOf(DOMAIN json, LAMBDA n : Parsed(signature[n].annotation, json[n]))
    ELSE {}

ValueOfJson(Parsed(_, _), a, json) ==
    CASE Is(json, "None") -> IF a.optional THEN {NoneValue} ELSE {}
      [] ~Is(json, "None") /\ a.type = "dataclass" ->
            IF Is(json, "object")
            THEN {Object([n \in DOMAIN a.of |->
                            IF n \in DOMAIN kwargs THEN kwargs[n] ELSE CHOOSE d \in a.of[n].default : TRUE]) :
                    kwargs \in KwargsOfJson(Parsed, a.of, json[2])}
            ELSE {}
      [] ~Is(json, "None") /\ a.type = "enum" ->
            {Enum(value) : value \in {value \in DOMAIN a.of : Is(json, "str") /\ Lower(json[2]) = value}}
      [] ~Is(json, "None") /\ a.type = "str" -> IF Is(json, "str") THEN {json} ELSE {}
      [] ~Is(json, "None") /\ a.type = "list" ->
            IF Is(json, "list")
            THEN {List(values) : values \in AllOf(DOMAIN json[2], LAMBDA k : Parsed(a.of, json[2][k]))}
            ELSE {}
      [] ~Is(json, "None") /\ a.type = "bool" -> {}

TypedValueFromJson(a, json) == ValueOfJson(Nothing, a, json)

KwargsFromJson(signature, json) == KwargsOfJson(TypedValueFromJson, signature, json)

=====================================================================================
