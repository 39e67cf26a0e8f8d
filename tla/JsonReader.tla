----------------------------- MODULE JsonReader -----------------------------
(***************************************************************************)
(* Json::Reader and the Json::Value it fills.  A step takes one token; the *)
(* recursion of readValue, readObject and readArray is the stack nodes_.   *)
(* The document is a function from paths to values: a path is a sequence   *)
(* of keys, and a key is a member name or an array index.  After an error  *)
(* the reader skips to the end of each container that is open and returns  *)
(* false, with what it has built left in the document.                     *)
(***************************************************************************)
EXTENDS JsonText

CONSTANT StackLimit     \* stackLimit_g

ASSUME StackAssumption == StackLimit \in Nat \ {0}

VARIABLES
    doc,                \* the document: path -> value
    nodes,              \* the containers being read: path, type, child's key
    at,                 \* what the reader will read next
    successful          \* what parse() returns

reader == <<doc, nodes, at, successful>>

\* A token, to the detail the reader looks at; a value; keys and paths.
Token ==
    [type : {"{", "}", "[", "]", ":", ",", "comment", "error", "eos", "null"}]
        \cup [type : {"bool"}, bool : BOOLEAN]
        \cup [type : {"string"}, name : Name]
        \cup [type : {"number"}, negative : BOOLEAN, digits : Seq(0..9)]

JsonValue ==
    [type : {"null", "object", "array"}]
        \cup [type : {"bool"}, bool : BOOLEAN]
        \cup [type : {"string"}, name : Name]
        \cup [type : {"int"}, int : MinLargestInt..MaxLargestInt]
        \cup [type : {"uint"}, int : (MaxInt + 1)..MaxLargestUInt]
        \cup [type : {"real"}, whole : Int]

Key == Name \X Nat
Path == Seq(Key)
Node == [path : Path, type : {"object", "array"}, key : Key]

Null == [type |-> "null"]
Member(name) == <<name, 0>>
Element(i) == <<<<>>, i>>
Below(p, q) == Len(p) <= Len(q) /\ SubSeq(q, 1, Len(p)) = p

InitReader ==
    /\ doc = [p \in {<<>>} |-> Null]
    /\ nodes = <<>>
    /\ at = "value"
    /\ successful = TRUE

Finished == at \in {"done", "thrown"}
Top == nodes[Len(nodes)]
Front(s) == SubSeq(s, 1, Len(s) - 1)

\* currentValue()
Current == IF nodes = <<>> THEN <<>> ELSE Append(Top.path, Top.key)

\* swapPayload: the value replaces what was there, with all below it.
SwapPayload(p, v) ==
    doc' = [q \in {p} \cup {r \in DOMAIN doc : ~Below(p, r)} |->
               IF q = p THEN v ELSE doc[q]]

\* operator[] has created the current value as a null, unless it was there.
Resolve == IF Current \in DOMAIN doc THEN UNCHANGED doc
                                     ELSE SwapPayload(Current, Null)

\* The value read last is complete: on to the rest of its container.
Completed(open) == at' = IF open = <<>> THEN "end" ELSE open[Len(open)].type

Pop ==
    /\ nodes' = Front(nodes)
    /\ Completed(Front(nodes))
    /\ UNCHANGED <<doc, successful>>

\* addError; every container that is open then recovers from it.
Fail ==
    /\ successful' = FALSE
    /\ at' = IF nodes = <<>> THEN "end" ELSE "recover"
    /\ UNCHANGED nodes

Goto(place) == at' = place /\ UNCHANGED <<doc, nodes, successful>>
SetKey(key) == nodes' = [nodes EXCEPT ![Len(nodes)].key = key]

-----------------------------------------------------------------------------
(* readValue: an array that is empty has its own branch, in readArray.     *)

ValueNext(token) == at = "value" \/ (at = "first" /\ token.type # "]")

ReadTooDeep(token) ==
    /\ ValueNext(token)
    /\ Len(nodes) + 1 > StackLimit
    /\ Resolve
    /\ at' = "thrown"
    /\ UNCHANGED <<nodes, successful>>

ReadScalar(token) ==
    /\ ValueNext(token)
    /\ Len(nodes) + 1 <= StackLimit
    /\ token.type \in {"null", "bool", "number", "string"}
    /\ token.type = "number" => Decodable(token)
    /\ SwapPayload(Current, IF token.type = "number" THEN DecodeNumber(token)
                                                     ELSE token)
    /\ Completed(nodes)
    /\ UNCHANGED <<nodes, successful>>

Open(token) ==
    /\ ValueNext(token)
    /\ Len(nodes) + 1 <= StackLimit
    /\ token.type \in {"{", "["}
    /\ LET object == token.type = "{"
           type == IF object THEN "object" ELSE "array"
       IN  /\ SwapPayload(Current, [type |-> type])
           /\ nodes' = Append(nodes, [path |-> Current, type |-> type,
                        key |-> IF object THEN Member(<<>>) ELSE Element(1)])
           /\ at' = IF object THEN "name" ELSE "first"
    /\ UNCHANGED successful

\* The comment is skipped.
ReadComment(token) ==
    /\ ValueNext(token)
    /\ Len(nodes) + 1 <= StackLimit
    /\ token.type = "comment"
    /\ Resolve
    /\ at' = "value"
    /\ UNCHANGED <<nodes, successful>>

\* A token that is no value, or a number that is not decoded.
NotAValue(token) ==
    \/ token.type \in {"}", "]", ",", ":", "error", "eos"}
    \/ token.type = "number" /\ ~Decodable(token)

\* Mutant: a bad value is dropped and the container goes on.
ValueDropped(token) ==
    /\ ValueNext(token)
    /\ Len(nodes) + 1 <= StackLimit
    /\ NotAValue(token)
    /\ Resolve
    /\ successful' = FALSE
    /\ Completed(nodes)
    /\ UNCHANGED nodes

\* "Syntax error: value, object or array expected.", "... is not a number."
ValueExpected(token) ==
    /\ ValueNext(token)
    /\ Len(nodes) + 1 <= StackLimit
    /\ NotAValue(token)
    /\ Resolve
    /\ Fail

-----------------------------------------------------------------------------
(* readObject: name, colon, value, and then a comma or the end.  A last    *)
(* name that is empty looks like no name at all, and after a comment any   *)
(* token is taken for the comma.                                           *)

ReadName(token) ==
    /\ at = "name"
    /\ \/ token.type = "comment" /\ Goto("name")
       \/ token.type = "}" /\ Top.key = Member(<<>>) /\ Pop
       \/ /\ token.type = "string"
          /\ SetKey(Member(token.name))
          /\ at' = "colon"
          /\ UNCHANGED <<doc, successful>>
       \/ /\ token.type \notin {"comment", "string"}
          /\ token.type # "}" \/ Top.key # Member(<<>>)
          /\ Fail /\ UNCHANGED doc

ReadColon(token) ==
    /\ at = "colon"
    /\ IF token.type = ":" THEN Goto("value") ELSE Fail /\ UNCHANGED doc

ReadMemberEnd(token) ==
    /\ at = "object"
    /\ \/ token.type = "comment" /\ Goto("comment")
       \/ token.type = "," /\ Goto("name")
       \/ token.type = "}" /\ Pop
       \/ token.type \notin {"comment", ",", "}"} /\ Fail /\ UNCHANGED doc

ReadAfterComment(token) ==
    /\ at = "comment"
    /\ \/ token.type = "comment" /\ Goto("comment")
       \/ token.type = "}" /\ Pop
       \/ token.type \notin {"comment", "}"} /\ Goto("name")

(* readArray *)

EndEmptyArray(token) == at = "first" /\ token.type = "]" /\ Pop

\* Mutant: an index is left out.
ReadElementEndSkips(token) ==
    /\ at = "array"
    /\ token.type = ","
    /\ SetKey(Element(Top.key[2] + 2))
    /\ at' = "value"
    /\ UNCHANGED <<doc, successful>>

ReadElementEnd(token) ==
    /\ at = "array"
    /\ \/ token.type = "comment" /\ Goto("array")
       \/ /\ token.type = ","
          /\ SetKey(Element(Top.key[2] + 1))
          /\ at' = "value"
          /\ UNCHANGED <<doc, successful>>
       \/ token.type = "]" /\ Pop
       \/ token.type \notin {"comment", ",", "]"} /\ Fail /\ UNCHANGED doc

\* Mutant: the container that encloses the one recovered from goes on.
RecoverResumes(token) ==
    /\ at = "recover"
    /\ IF token.type \in {"eos", IF Top.type = "object" THEN "}" ELSE "]"}
       THEN Pop ELSE Goto("recover")

\* Mutant: the end of the text is not looked for.
RecoverEndless(token) ==
    /\ at = "recover"
    /\ IF token.type = IF Top.type = "object" THEN "}" ELSE "]"
       THEN /\ nodes' = Front(nodes)
            /\ at' = IF Len(nodes) = 1 THEN "end" ELSE "recover"
            /\ UNCHANGED <<doc, successful>>
       ELSE Goto("recover")

\* recoverFromError: tokens are skipped to the end of the container.
Recover(token) ==
    /\ at = "recover"
    /\ IF token.type \in {"eos", IF Top.type = "object" THEN "}" ELSE "]"}
       THEN /\ nodes' = Front(nodes)
            /\ at' = IF Len(nodes) = 1 THEN "end" ELSE "recover"
            /\ UNCHANGED <<doc, successful>>
       ELSE Goto("recover")

\* parse() looks at one more token, whatever it is.
ReadEnd(token) ==
    /\ at = "end"
    /\ Goto(IF token.type = "comment" THEN "end" ELSE "done")

Read(token) ==
    \/ ReadTooDeep(token) \/ ReadScalar(token) \/ Open(token)
    \/ ReadComment(token) \/ ValueExpected(token)
    \/ ReadName(token) \/ ReadColon(token) \/ ReadMemberEnd(token)
    \/ ReadAfterComment(token)
    \/ EndEmptyArray(token) \/ ReadElementEnd(token)
    \/ Recover(token) \/ ReadEnd(token)

-----------------------------------------------------------------------------
(* Json::Value as its users see it.                                        *)

\* isMember: throws unless the value is an object or null.
HasMembers(p) == doc[p].type \in {"object", "null"}
IsMember(p, name) == Append(p, Member(name)) \in DOMAIN doc

\* operator[] of a name that is not there is a null.
Value(p) == IF p \in DOMAIN doc THEN doc[p] ELSE Null

\* The children of a value in the order of iteration, and none of a scalar:
\* elements by index; members in the order of their names.
Children(p) == {q \in DOMAIN doc : Len(q) = Len(p) + 1 /\ Below(p, q)}

\* asString, asInt, asInt64 and asBool: which values they do not throw for.
ConvertibleToString(v) == v.type \notin {"array", "object"}
ConvertibleToBool(v) == v.type \notin {"array", "object", "string"}

\* isInt, and its kin of 64 bits
IsInt(v, low, high) == v.type \in {"int", "uint"} /\ low <= v.int /\ v.int <= high

\* A double is cut off after its range is checked, against the limits as
\* doubles.
InRange(whole, low, high) == ToDouble(low) <= whole /\ whole <= ToDouble(high)

ConvertibleToInt(v, low, high) ==
    CASE v.type \in {"int", "uint"} -> IsInt(v, low, high)
      [] v.type = "real" -> InRange(v.whole, low, high)
      [] v.type \notin {"int", "uint", "real"} -> v.type \in {"null", "bool"}

AsInt(v) ==
    CASE v.type \in {"int", "uint"} -> v.int
      [] v.type = "real" -> v.whole
      [] v.type = "bool" -> IF v.bool THEN 1 ELSE 0
      [] v.type \notin {"int", "uint", "real", "bool"} -> 0
=============================================================================
