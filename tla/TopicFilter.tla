---------------------------- MODULE TopicFilter -----------------------------
(***************************************************************************)
(* GlobalContext's lists of topics: which topics may be published,         *)
(* subscribed to, and relayed from another repeater.  A name is a sequence *)
(* of code points.                                                         *)
(***************************************************************************)
EXTENDS Integers, Sequences

CONSTANTS
    ReservedTopics,             \* ping, pong, subscribe, error and *
    AllownTopics,               \* the three lists of the configuration
    DisabledSubscribeTopics,
    EnabledSubscribeTopics

Star == 42

ASSUME FilterAssumption == <<Star>> \in ReservedTopics

StartsWith(s, prefix) ==
    Len(s) >= Len(prefix) /\ SubSeq(s, 1, Len(prefix)) = prefix

EndsWith(s, suffix) ==
    Len(s) >= Len(suffix) /\ SubSeq(s, Len(s) - Len(suffix) + 1, Len(s)) = suffix

\* replaceString(topic, "*", "")
RemoveStars(s) == SelectSeq(s, LAMBDA c : c # Star)

IsReserved(topic) == topic \in ReservedTopics

\* is_allown_topic
IsAllown(topic) ==
    ~IsReserved(topic) /\ (<<Star>> \in AllownTopics \/ topic \in AllownTopics)

\* A star at the end makes a prefix, whatever comes before; else a star at
\* the start makes a suffix; and the stars are removed.
Prefixes(list) ==
    {RemoveStars(t) : t \in {u \in list \ ReservedTopics : EndsWith(u, <<Star>>)}}

Suffixes(list) ==
    {RemoveStars(t) : t \in {u \in list \ ReservedTopics :
                               StartsWith(u, <<Star>>) /\ ~EndsWith(u, <<Star>>)}}

Exact(list) ==
    {u \in list \ ReservedTopics :
        ~StartsWith(u, <<Star>>) /\ ~EndsWith(u, <<Star>>)}

Matches(topic, list) ==
    \/ topic \in Exact(list)
    \/ \E prefix \in Prefixes(list) : StartsWith(topic, prefix)
    \/ \E suffix \in Suffixes(list) : EndsWith(topic, suffix)

IsDisabled(topic) == Matches(topic, DisabledSubscribeTopics)

\* No list is every topic.
IsEnabled(topic) ==
    EnabledSubscribeTopics \subseteq ReservedTopics
        \/ Matches(topic, EnabledSubscribeTopics)

\* The condition of parseSubscribeTopics.
MaySubscribe(topic) ==
    IsAllown(topic) /\ IsEnabled(topic) /\ ~IsDisabled(topic)

\* layer_subscribe_topics: those of the configuration that are allowed.
LayerParts(list) ==
    LET kept[i \in 0..Len(list)] ==
            IF i = 0 THEN <<>>
            ELSE IF IsAllown(list[i]) THEN Append(kept[i - 1], list[i])
            ELSE kept[i - 1]
    IN  kept

LayerTopics(list) == LayerParts(list)[Len(list)]
=============================================================================
