-------------------------------- MODULE Wire --------------------------------
(***************************************************************************)
(* Calls of the web client's generated gRPC code: the stubs of             *)
(* src/web/gen/*.client.ts, and internalBinaryWrite and internalBinaryRead *)
(* of the message types.  Client and server are released separately, so    *)
(* either may lack a field that the other one has; the server writes the   *)
(* fields of a reply in any order.  Scalars are abstracted to their zero   *)
(* value and another one.                                                  *)
(***************************************************************************)
EXTENDS Integers, Sequences, FiniteSets, TLC, SequencesExt

CONSTANTS
    TypeFields,      \* message type -> its fields
    TypeProperties,  \* message type -> the properties it is declared with
    ServiceMethods,  \* service -> its methods
    ClientStubs,     \* service -> the stubs of its client class
    Undefined,       \* value of an absent field
    Keys,            \* keys of maps
    MaxSet,          \* bound: fields of a reply that are not default
    MaxReplies       \* bound: replies of a streaming call

VARIABLES
    call,            \* the stub called, its method, its argument, and the
                     \* field the server does not have
    lacks,           \* the field the client does not have
    taken,           \* what the server made of the request
    reply,           \* the message the server sends
    pending,         \* records of the reply that are not read yet, by field number
    got,             \* the message being read
    replies          \* how many replies the call has had

wireVars == <<call, lacks, taken, reply, pending, got, replies>>

-----------------------------------------------------------------------------
(* Messages *)

IsMessage(T) == T \in DOMAIN TypeFields

NameOf(T) == {TypeFields[T][i].name : i \in DOMAIN TypeFields[T]}
FieldOf(T, name) == CHOOSE f \in ToSet(TypeFields[T]) : f.name = name

\* A field no side lacks; with it a field is <<type, number>>.
Nothing == <<"", 0>>

\* The fields of a type for a side that lacks one.
Known(T, without) == SelectSeq(TypeFields[T], LAMBDA f : <<T, f.no>> # without)

Default(f) ==
    CASE f.card = "one"                      -> 0
      [] f.card \in {"opt", "msg"}           -> Undefined
      [] f.card \in {"rep", "packed", "map"} -> << >>

\* create(): defaults, and no unknown fields.
create(fields) ==
    [f |-> [n \in {fields[i].name : i \in DOMAIN fields} |->
              Default(CHOOSE x \in ToSet(fields) : x.name = n)],
     unknown |-> << >>]

WireType(T) ==
    CASE T \in {"int32", "int64", "uint32", "uint64", "bool"} -> "varint"
      [] T = "double" -> "bit64"
      [] T = "float"  -> "bit32"
      [] OTHER        -> "len"

Rec(f, wt, v) == [no |-> f.no, wireType |-> wt, v |-> v]

RECURSIVE Encode(_, _, _), Decode(_, _, _)

\* The value of a record: a nested message is encoded, a scalar is not.
Written(T, v, without) == IF IsMessage(T) THEN Encode(T, v, without) ELSE v
Read(T, v, target, without) ==
    IF IsMessage(T)
    THEN Decode(<<T, IF target = Undefined THEN create(Known(T, without)) ELSE target>>, v, without)
    ELSE v

\* What is written of a field: nothing for a default, each element of an array,
\* each entry of a map, all of a packed one at once.
Elements(card, v) ==
    CASE card = "one"             -> IF v = 0 THEN << >> ELSE <<v>>
      [] card \in {"opt", "msg"}  -> IF v = Undefined THEN << >> ELSE <<v>>
      [] card = "rep"             -> v
      [] card = "packed"          -> IF v = << >> THEN << >> ELSE <<v>>
      [] card = "map"             -> SetToSeq({<<k, v[k]>> : k \in DOMAIN v})

Record(f, x, without) ==
    CASE f.card = "map"    -> Rec(f, "len", <<x[1], Written(f.T, x[2], without)>>)
      [] f.card = "packed" -> Rec(f, "len", x)
      [] OTHER             -> Rec(f, WireType(f.T), Written(f.T, x, without))

\* internalBinaryWrite, for one field: the records it becomes.
RecordsOf(f, elements, without) == [i \in DOMAIN elements |-> Record(f, elements[i], without)]
writeField(f, v, without) == RecordsOf(f, Elements(f.card, v), without)

\* internalBinaryWrite: the fields in order, then the unknown ones.
Encode(T, m, without) ==
    LET fs == Known(T, without)
    IN  FlattenSeq([i \in DOMAIN fs |-> writeField(fs[i], m.f[fs[i].name], without)]) \o m.unknown

\* The default case of the switch: the record is kept with the message.
onUnknown(m, rec) == [m EXCEPT !.unknown = Append(@, rec)]

\* The value of a field after a record, which has been read as v.
Stored(f, old, rec, v) ==
    CASE f.card \in {"one", "opt", "msg"} -> v
      [] f.card = "rep"                   -> Append(old, v)
      [] f.card = "packed"                -> IF rec.wireType = "len" THEN old \o v ELSE Append(old, v)
      [] f.card = "map"                   -> (rec.v[1] :> v) @@ old

\* Only a message is read into what the field has so far.
readInto(m, f, rec, without) ==
    [m EXCEPT !.f[f.name] =
        Stored(f, @, rec, Read(f.T, IF f.card = "map" THEN rec.v[2] ELSE rec.v,
                               IF f.card = "msg" THEN @ ELSE Undefined, without))]

\* internalBinaryRead, for one record.
readField(T, m, rec, without) ==
    IF \E f \in ToSet(Known(T, without)) : f.no = rec.no
    THEN readInto(m, CHOOSE f \in ToSet(Known(T, without)) : f.no = rec.no, rec, without)
    ELSE onUnknown(m, rec)

\* internalBinaryRead: target is <<type, message>>.
Decode(target, recs, without) ==
    IF recs = << >> THEN target[2]
    ELSE Decode(<<target[1], readField(target[1], target[2], Head(recs), without)>>, Tail(recs), without)

\* What a side that lacks a field can know of a message: the records of the
\* other fields, here and in the messages inside, and the rest as unknown.
RECURSIVE Seen(_, _, _)
Seen(T, m, without) ==
    LET part(f, v) ==
          IF ~IsMessage(f.T) \/ v = Undefined THEN v
          ELSE IF f.card = "msg" THEN Seen(f.T, v, without)
          ELSE [x \in DOMAIN v |-> Seen(f.T, v[x], without)]
        gone == SelectSeq(TypeFields[T], LAMBDA f : <<T, f.no>> = without)
    IN  [f |-> [n \in {x \in NameOf(T) : <<T, FieldOf(T, x).no>> # without} |->
                  part(FieldOf(T, n), m.f[n])],
         unknown |-> IF gone = << >> THEN m.unknown
                     ELSE m.unknown \o writeField(gone[1], m.f[gone[1].name], Nothing)]
-----------------------------------------------------------------------------
(* The messages of the instance: at most n fields are not default, and the  *)
(* messages inside are empty or have every field.                           *)

RECURSIVE Full(_)

SomeOf(T) == IF IsMessage(T) THEN {create(TypeFields[T]), Full(T)} ELSE {0, 1}

ValuesFrom(card, some) ==
    CASE card = "one" -> {1}
      [] card \in {"opt", "msg"} -> some
      [] card = "rep" -> {<<v>> : v \in some} \cup {<<u, v>> : u \in some, v \in some}
      [] card = "packed" -> {<<0>>, <<1, 0>>}
      [] card = "map" -> {k :> v : k \in Keys, v \in some} \cup {[k \in Keys |-> v] : v \in some}
Values(f) == ValuesFrom(f.card, SomeOf(f.T))

Full(T) ==
    [create(TypeFields[T]) EXCEPT !.f = [n \in DOMAIN @ |-> CHOOSE v \in Values(FieldOf(T, n)) : TRUE]]

RECURSIVE Samples(_, _)
Samples(T, n) ==
    {create(TypeFields[T])} \cup
    IF n = 0 THEN {}
    ELSE UNION {{[m EXCEPT !.f[f.name] = v] : v \in Values(f)} :
                  m \in Samples(T, n - 1), f \in ToSet(TypeFields[T])}
-----------------------------------------------------------------------------
NoCall == [service |-> "", stub |-> << >>, method |-> << >>, input |-> << >>,
           lacks |-> Nothing]

WireInit ==
    /\ call = NoCall /\ lacks = Nothing /\ taken = << >> /\ reply = << >>
    /\ pending = << >> /\ got = << >> /\ replies = 0

\* Mutant: methods counted from one.
methodFromOne(service, stub) == ServiceMethods[service][IF stub.index = 0 THEN 1 ELSE stub.index]

\* const method = this.methods[i]
method(service, stub) == ServiceMethods[service][stub.index + 1]

\* A stub is called: stackIntercept sends the argument, encoded as the
\* method's input type, to the method's path.
Call(service, stub, input, without) ==
    /\ call' = [service |-> service, stub |-> stub, method |-> method(service, stub),
                input |-> input, lacks |-> without]
    /\ UNCHANGED <<lacks, taken, reply, pending, got, replies>>

\* The server, which may lack the field, reads the request by the method's path.
Take ==
    LET m == call.method
    IN  /\ call # NoCall /\ taken = << >>
        /\ taken' = [rpc |-> m.name,
                     input |-> Decode(<<m.I, create(Known(m.I, call.lacks))>>,
                                      Encode(m.I, call.input, Nothing), call.lacks)]
        /\ UNCHANGED <<call, lacks, reply, pending, got, replies>>

\* The handler of the server is done with the request.
Serve ==
    /\ taken # << >> /\ taken.input # << >>
    /\ call' = [call EXCEPT !.input = << >>, !.lacks = Nothing]
    /\ taken' = [taken EXCEPT !.input = << >>]
    /\ UNCHANGED <<lacks, reply, pending, got, replies>>

\* The server answers; it writes the records of each field in order, the
\* fields in any order.  The client, which may lack a field, starts to read.
Reply(m, without) ==
    LET O == call.method.O
        recs == Encode(O, m, Nothing)
    IN  /\ replies' = replies + 1 /\ lacks' = without /\ reply' = m
        /\ pending' = [no \in {r.no : r \in ToSet(recs)} |-> SelectSeq(recs, LAMBDA r : r.no = no)]
        /\ got' = create(Known(O, without))
        /\ UNCHANGED <<call, taken>>

\* One round of the loop of internalBinaryRead.
ReadNext(no) ==
    /\ no \in DOMAIN pending
    /\ got' = readField(call.method.O, got, Head(pending[no]), lacks)
    /\ pending' = IF Len(pending[no]) > 1 THEN [pending EXCEPT ![no] = Tail(@)]
                  ELSE [x \in DOMAIN pending \ {no} |-> pending[x]]
    /\ UNCHANGED <<call, lacks, taken, reply, replies>>

\* The fields a message gives a value, which one of the sides may lack.
Lackable(T, m) ==
    {Nothing} \cup {<<T, f.no>> : f \in {x \in ToSet(TypeFields[T]) : m.f[x.name] # Default(x)}}
      \cup UNION {{<<f.T, g.no>> : g \in ToSet(TypeFields[f.T])} :
                    f \in {x \in ToSet(TypeFields[T]) : IsMessage(x.T) /\ m.f[x.name] # Default(x)}}

CallAny ==
    /\ call = NoCall
    /\ \E s \in DOMAIN ClientStubs : \E i \in DOMAIN ClientStubs[s] :
         LET stub == ClientStubs[s][i]
         IN  \E m \in Samples(stub.I, 1) : \E w \in Lackable(stub.I, m) : Call(s, stub, m, w)

ReplyAny ==
    /\ taken # << >> /\ taken.input = << >> /\ pending = << >>
    /\ replies < IF call.method.streaming THEN MaxReplies ELSE 1
    /\ \E m \in Samples(call.method.O, MaxSet) : \E w \in Lackable(call.method.O, m) : Reply(m, w)

WireNext == CallAny \/ Take \/ Serve \/ ReplyAny \/ \E no \in DOMAIN pending : ReadNext(no)

-----------------------------------------------------------------------------
(* A call reaches the rpc its stub is named after, and the server, older    *)
(* or newer than the client, knows every field of the argument that it has, *)
(* zero and absent told apart; the rest is kept as unknown.                 *)
RequestArrives ==
    taken # << >> =>
        /\ taken.rpc = call.stub.rpc
        /\ taken.input # << >> => taken.input = Seen(call.stub.I, call.input, call.lacks)

\* What a property of a declared shape holds for a field that is read: the type
\* of the reader's value, and whether it may be undefined.
readAs(f) ==
    [shape |-> CASE f.card = "one" -> "value"
                 [] f.card \in {"opt", "msg"} -> "optional"
                 [] f.card \in {"rep", "packed"} -> "array"
                 [] f.card = "map" -> "map",
     T |-> CASE f.T \in {"int32", "uint32", "double", "float"} -> "number"
             [] f.T \in {"int64", "uint64"} -> "bigint"
             [] f.T = "bool" -> "boolean"
             [] OTHER -> f.T,
     name |-> f.name]

RECURSIVE HasType(_, _, _)
HasType(T, m, without) ==
    \A f \in ToSet(Known(T, without)) :
        LET v == m.f[f.name]
        IN  /\ readAs(f) \in TypeProperties[T]
            /\ readAs(f).shape # "optional" => v # Undefined
            /\ IsMessage(f.T) /\ v # Undefined =>
                 IF f.card = "msg" THEN HasType(f.T, v, without)
                 ELSE \A x \in DOMAIN v : HasType(f.T, v[x], without)

(* The client is compiled against the interfaces: a reply, at any point of  *)
(* being read and whatever the server left out, has every property they     *)
(* declare, of the declared type, and only the optional ones undefined.     *)
RepliesHaveType == replies > 0 => HasType(call.stub.O, got, lacks)

(* Whatever the order of the fields on the wire, and whichever field the    *)
(* client does not have yet, the message it ends up with is the server's    *)
(* in every field it knows, and holds the others as unknown.                *)
ReplyReads ==
    replies > 0 /\ pending = << >> => got = Seen(call.stub.O, reply, lacks)
=============================================================================
