------------------------------- MODULE Topic -------------------------------
(***************************************************************************)
(* Topic routing: how the broker matches a routing key against a binding   *)
(* pattern (internal/fakebroker), and the trie an event listener keeps its *)
(* subscriptions in (internal/topic). Patterns and keys are sequences of   *)
(* words; "*" stands for one word and "#" for any number of them.          *)
(***************************************************************************)
EXTENDS Naturals, Sequences, Functions

\* The broker's topicMatch, of what is left of the pattern from i and of the topic from j.
TopicMatch(pattern, topic) ==
    LET match[i \in 1..(Len(pattern) + 1), j \in 1..(Len(topic) + 1)] ==
            CASE i > Len(pattern) -> j > Len(topic)
              [] i <= Len(pattern) /\ pattern[i] = "#" ->
                     match[i + 1, j] \/ (j <= Len(topic) /\ match[i, j + 1])
              [] OTHER ->
                     /\ j <= Len(topic) /\ pattern[i] \in {"*", topic[j]}
                     /\ match[i + 1, j + 1]
    IN  match[1, 1]

-----------------------------------------------------------------------------
(***************************************************************************)
(* The trie: a node is the path that leads to it, and holds the entries    *)
(* whose pattern ends there.                                               *)
(***************************************************************************)
EmptyTrie == [n \in {<<>>} |-> <<>>]

Add(trie, pattern, v, seq) ==
    LET values(n) == IF n \in DOMAIN trie THEN trie[n] ELSE <<>>
        path == {SubSeq(pattern, 1, i) : i \in 0..Len(pattern)}
    IN  [n \in DOMAIN trie \cup path |->
            IF n = pattern THEN Append(values(n), [v |-> v, seq |-> seq]) ELSE values(n)]

\* collect: the entries whose patterns can match the topic from word i, by node.
\* A literal word never descends into a wildcard's node.
Collect(trie, topic) ==
    LET end == Len(topic) + 1
        collect[n \in DOMAIN trie, i \in 1..end] ==
            LET below(word, j) ==
                    IF Append(n, word) \in DOMAIN trie THEN collect[Append(n, word), j]
                    ELSE <<>>
            IN  IF i = end THEN trie[n] \o below("#", end)
                ELSE (IF topic[i] \in {"*", "#"} THEN <<>> ELSE below(topic[i], i + 1))
                     \o below("*", i + 1)
                     \o MapThenFoldSet(\o, <<>>, LAMBDA j : below("#", j),
                            LAMBDA S : CHOOSE j \in S : \A k \in S : j <= k, i..end)
    IN  collect[<<>>, 1]

\* The values of the entries found, each once, by rank.
Values(found, rank(_)) ==
    MapThenFoldSet(LAMBDA e, dst : IF e.v \in Range(dst) THEN dst ELSE Append(dst, e.v),
                   <<>>, LAMBDA i : found[i],
                   LAMBDA S : CHOOSE i \in S : \A j \in S : rank(j) <= rank(i), DOMAIN found)

\* Mutant: the entries are not sorted.
MatchUnsorted(trie, topic) == Values(Collect(trie, topic), LAMBDA i : i)

\* The values in the order they were added.
Match(trie, topic) ==
    LET found == Collect(trie, topic) IN Values(found, LAMBDA i : found[i].seq)
=============================================================================
