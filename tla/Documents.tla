----------------------------- MODULE Documents ------------------------------
(***************************************************************************)
(* The texts the repeater parses and uses without a look at what parse()   *)
(* returns: the body of a subscribe frame and the configuration file.  A   *)
(* text is written by a layer connector from its topics, has one setting   *)
(* that is a number, or is any sequence of tokens.                         *)
(***************************************************************************)
EXTENDS JsonReader, TopicFilter, FiniteSets

CONSTANTS
    Tokens,             \* the tokens of texts from elsewhere
    MaxTokens,          \* bound: their length
    LayerLists,         \* configured lists of topics a connector writes from
    Numbers,            \* number texts of the configuration
    TopicsName,         \* "topics"
    Fields,             \* settings in the order they are loaded
    Policies            \* latest, oldest, disconnect

ASSUME TextAssumption ==
    /\ Tokens \subseteq Token
    /\ MaxTokens \in Nat
    /\ LayerLists \subseteq Seq(Name)
    /\ Numbers \subseteq Number
    /\ TopicsName \in Name
    /\ \A i \in DOMAIN Fields : Fields[i].name \in Name

VARIABLES
    text,               \* what the reader has not read of a given text
    left,               \* how many tokens of another text may follow
    wrote,              \* history: what the text was written from
    nulls               \* history: nulls that are in the text

vars == <<reader, text, left, wrote, nulls>>

Punctuation(c) == [type |-> c]
StringToken(name) == [type |-> "string", name |-> name]
NumberToken(number) == [type |-> "number", negative |-> number.negative,
                        digits |-> number.digits]
EndOfStream == Punctuation("eos")

\* A string as valueToQuotedString writes it; one that decodeString refuses is
\* to the reader what a token is that is none, at every place.
Written(name) == IF Readable(name) THEN StringToken(RereadName(name))
                                   ELSE Punctuation("error")

\* An array of strings as BuiltStyledStreamWriter writes it.
WriteArray(names) ==
    LET last == IF names = <<>> THEN 2 ELSE 2 * Len(names) + 1
    IN  [i \in 1..last |->
            IF i = 1 THEN Punctuation("[")
            ELSE IF i = last THEN Punctuation("]")
            ELSE IF i % 2 = 0 THEN Written(names[i \div 2])
            ELSE Punctuation(",")]

\* {"topics" : [...]}, from body_json["topics"].append(topic)
SubscribeBody(topics) ==
    <<Punctuation("{"), StringToken(TopicsName), Punctuation(":")>>
        \o WriteArray(topics) \o <<Punctuation("}")>>

\* A setting that is a number.
NumberBody(field, number) ==
    <<Punctuation("{"), StringToken(field), Punctuation(":"),
      NumberToken(number), Punctuation("}")>>

Init ==
    /\ InitReader
    /\ nulls = 0
    /\ \/ wrote = [kind |-> "text"] /\ text = <<>> /\ left = MaxTokens
       \/ \E list \in LayerLists :
             /\ LayerTopics(list) # <<>>
             /\ wrote = [kind |-> "topics", topics |-> LayerTopics(list)]
             /\ text = SubscribeBody(LayerTopics(list))
             /\ left = 0
       \/ \E number \in Numbers, i \in DOMAIN Fields :
             /\ Fields[i].as \in {"int", "int64", "size"}
             /\ wrote = [kind |-> "number", field |-> Fields[i],
                         number |-> number]
             /\ text = NumberBody(Fields[i].name, number)
             /\ left = 0

\* readToken: the next token of the text, and the end of it for ever.
ReadToken(token) ==
    /\ ~Finished
    /\ \/ text # <<>> /\ token = Head(text) /\ text' = Tail(text) /\ UNCHANGED left
       \/ /\ text = <<>> /\ left > 0
          /\ token \in Tokens \cup {EndOfStream}
          /\ left' = IF token = EndOfStream THEN 0 ELSE left - 1
          /\ UNCHANGED text
       \/ text = <<>> /\ left = 0 /\ token = EndOfStream /\ UNCHANGED <<text, left>>
    /\ Read(token)
    /\ nulls' = IF token.type = "null" THEN nulls + 1 ELSE nulls
    /\ UNCHANGED wrote

Given == IF text = <<>> THEN {} ELSE {Head(text)}
Next == \E token \in Tokens \cup Given \cup {EndOfStream} : ReadToken(token)

Spec == Init /\ [][Next]_vars
FairSpec == Spec /\ WF_vars(Next)

-----------------------------------------------------------------------------
(* parseSubscribeTopics                                                    *)

TrueName == <<116, 114, 117, 101>>
FalseName == <<102, 97, 108, 115, 101>>

\* asString, as a name: a number is the characters of its digits.
AsName(v) ==
    CASE v.type = "string" -> v.name
      [] v.type = "null" -> <<>>
      [] v.type = "bool" -> IF v.bool THEN TrueName ELSE FalseName
      [] v.type \in {"int", "uint"} -> NumberName(v.int)

TopicsPath == <<Member(TopicsName)>>

\* The loop ends at the first element asString() throws for.
Visited(i) ==
    \A j \in 1..i : ConvertibleToString(Value(Append(TopicsPath, Element(j))))

SubscribedTopics ==
    IF at # "done" \/ ~HasMembers(<<>>) \/ Value(TopicsPath).type # "array"
    THEN {}
    ELSE {AsName(doc[Append(TopicsPath, Element(i))]) :
            i \in {j \in 1..Cardinality(Children(TopicsPath)) :
                     Visited(j) /\ MaySubscribe(
                         AsName(doc[Append(TopicsPath, Element(j))]))}}

-----------------------------------------------------------------------------
(* loadRepeaterConfig: a setting is converted, or the conversion throws,   *)
(* which nothing catches, or the value is refused.                         *)

Setting(name) == Value(<<Member(name)>>)

Throws(field) ==
    LET v == Setting(field.name)
    IN  CASE field.as \in {"string", "policy"} -> ~ConvertibleToString(v)
          [] field.as = "bool" -> ~ConvertibleToBool(v)
          [] field.as \in {"int", "size"} -> ~ConvertibleToInt(v, MinInt, MaxInt)
          [] field.as = "int64" ->
                ~ConvertibleToInt(v, MinLargestInt, MaxLargestInt)
          [] field.as = "list" ->
                \E p \in Children(<<Member(field.name)>>) :
                    ~ConvertibleToString(doc[p])

\* An overrun policy that is not one, a send buffer below zero.
Refused(field) ==
    LET v == Setting(field.name)
    IN  IsMember(<<>>, field.name)
            /\ \/ field.as = "policy" /\ AsName(v) \notin Policies
               \/ field.as = "size" /\ AsInt(v) < 0

\* The first setting that stops the loading decides.
Stops(i) == Throws(Fields[i]) \/ Refused(Fields[i])

LoadConfig ==
    CASE at = "thrown" -> "refused"
      [] at = "done" /\ ~HasMembers(<<>>) -> "terminated"
      [] at = "done" /\ HasMembers(<<>>)
            /\ (\A i \in DOMAIN Fields : ~Stops(i)) -> "loaded"
      [] OTHER -> IF \E i \in DOMAIN Fields :
                        Throws(Fields[i]) /\ \A j \in 1..(i - 1) : ~Stops(j)
                  THEN "terminated" ELSE "refused"

-----------------------------------------------------------------------------
ReaderTypeOK ==
    /\ DOMAIN doc \subseteq Path /\ IsFiniteSet(DOMAIN doc)
    /\ \A p \in DOMAIN doc : doc[p] \in JsonValue
    /\ nodes \in Seq(Node)
    /\ at \in {"value", "first", "name", "colon", "object", "comment", "array",
              "recover", "end", "done", "thrown"}
    /\ successful \in BOOLEAN

\* The reader's variables and the text keep their types; an integer of the
\* document fits LargestInt or LargestUInt.
TypeOK ==
    /\ ReaderTypeOK
    /\ text \in Seq(Token) /\ left \in Nat /\ nulls \in Nat
    /\ wrote \in [kind : {"text"}]
                 \cup [kind : {"topics"}, topics : Seq(Name)]
                 \cup [kind : {"number"}, field : {Fields[i] : i \in DOMAIN Fields},
                       number : Number]

\* readObject, readArray, swapPayload: at every moment, the reader in the
\* middle of a value or recovering from an error, each value of the document
\* is in a container of its kind, and the elements of an array are numbered
\* without a gap.
DocumentIsTree ==
    \A p \in DOMAIN doc \ {<<>>} :
        LET key == p[Len(p)]
        IN  /\ Front(p) \in DOMAIN doc
            /\ doc[Front(p)].type = IF key[2] = 0 THEN "object" ELSE "array"
            /\ key[2] > 1 => Append(Front(p), Element(key[2] - 1)) \in DOMAIN doc

\* recoverFromError in each container that is open: from the first error on,
\* however deep, the document is not changed and parse() does not succeed.
ErrorIsFinal == [][~successful => doc' = doc /\ ~successful']_vars

\* operator[] before readValue: a document has at most one null that is not
\* in the text, the value that was to be read when the error was found, and
\* a document that was read to its end has none.
NullsAreWritten ==
    LET found == Cardinality({p \in DOMAIN doc : doc[p] = Null})
    IN  found <= IF at = "done" /\ successful THEN nulls ELSE nulls + 1

\* Every text, whatever is wrong with it, is read to an end.
ParseEnds == <>Finished

\* The characters, besides surrogates, that come back as they were written.
\* ThreeBytes takes those from 57344 on for surrogates and makes them
\* 65533, FourBytes shifts the highest out of their place.
Kept(cp) == cp <= 55295 \/ cp = 65533 \/ (65536 <= cp /\ cp <= 262143)

\* serialize_json_value, then parseSubscribeTopics at the upstream: of the topics
\* of its list a layer connector is subscribed to those it may subscribe to and
\* that have no other characters, and to nothing else unless it has some with
\* others, for which it asks under other names.
LayerSubscribesWhatItAsked ==
    wrote.kind = "topics" /\ at = "done" =>
        LET asked == {wrote.topics[i] : i \in DOMAIN wrote.topics}
            kept == {t \in asked : \A k \in DOMAIN t : Kept(t[k])}
            found == {t \in kept : IsEnabled(t) /\ ~IsDisabled(t)}
        IN  /\ successful
            /\ SubscribedTopics \cap asked = found
            /\ kept = asked => SubscribedTopics = found

\* decodeNumber and the conversions: a number of the configuration that the
\* setting can hold is loaded as what is written.  Any other is an error of
\* the parser, or its conversion throws, but for one case: a number below
\* int64 whose double is the least int64 is loaded as that.
NumberIsExact ==
    wrote.kind = "number" /\ at = "done" =>
        LET n == Denotes(wrote.number)
            wide == wrote.field.as = "int64"
            fits == IF wide THEN n \in MinLargestInt..MaxLargestInt
                            ELSE n \in MinInt..MaxInt
            loaded == AsInt(Setting(wrote.field.name))
        IN  /\ fits => successful /\ ~Throws(wrote.field) /\ loaded = n
            /\ ~fits /\ successful /\ ~Throws(wrote.field) =>
                  /\ wide /\ n < MinLargestInt
                  /\ ToDouble(n) = MinLargestInt /\ loaded = MinLargestInt

\* "Error: JSON parse error": a file that does not parse is not loaded.
MalformedConfigIsRefused ==
    at = "done" /\ ~successful => LoadConfig # "loaded"
=============================================================================
