----------------------------- MODULE AgentMemory -----------------------------
(* The agent's memory (DemoAgentMemory): two lists, one of tool uses that      *)
(* worked, one of free texts, each cut to its newest MaxItems when it grows.   *)
(* Ids are issued in order; the code draws them at random, never twice, and    *)
(* dates every memory, so the order of ids is the order of dates.  Every       *)
(* method runs under a lock and waits for nothing else: it is one step.        *)
EXTENDS Integers, Sequences, FiniteSets, SequencesExt

CONSTANTS
    Questions,   \* what is asked, and what a memory is about
    Similarity,  \* of two questions: the better of word overlap and diff ratio
    Threshold,   \* similarity_threshold
    MaxItems,    \* max_items
    NoTool       \* no tool filter

ASSUME MemoryAssumption ==
    MaxItems \in Nat /\ Similarity \in [Questions -> [Questions -> Int]]

VARIABLES
    memories,    \* _memories
    texts,       \* _text_memories
    issued,      \* history: number of ids issued
    toolIds,     \* history: the ids issued to tool memories
    gone         \* history: the ids deleted or cleared

memoryVars == <<memories, texts, issued, toolIds, gone>>

Ids(s) == {s[i].id : i \in DOMAIN s}

MemoryInit ==
    /\ memories = <<>>
    /\ texts = <<>>
    /\ issued = 0 /\ toolIds = {}
    /\ gone = {}

------------------------------------------------------------------------------
(* Saving, with first-in-first-out eviction. *)

\* The end of the list is cut off.
SlipNewest(s) == IF Len(s) > MaxItems THEN SubSeq(s, 1, MaxItems) ELSE s
Newest(s) == IF Len(s) > MaxItems THEN SubSeq(s, Len(s) - MaxItems + 1, Len(s)) ELSE s

SaveToolUsage(question, tool) ==
    /\ memories' = Newest(Append(memories, [id |-> issued + 1, about |-> question, tool |-> tool]))
    /\ issued' = issued + 1 /\ toolIds' = toolIds \cup {issued + 1}
    /\ UNCHANGED <<texts, gone>>

SaveTextMemory(question) ==
    /\ texts' = Newest(Append(texts, [id |-> issued + 1, about |-> question]))
    /\ issued' = issued + 1
    /\ UNCHANGED <<memories, toolIds, gone>>

------------------------------------------------------------------------------
(* Searching: the best matches first, of equal ones the older first (sort is   *)
(* stable).                                                                    *)

Better(s, query, i, j) ==
    \/ Similarity[query][s[i].about] > Similarity[query][s[j].about]
    \/ Similarity[query][s[i].about] = Similarity[query][s[j].about] /\ i < j

\* The place of position i among the hits: how many come no later.
Place(s, query, hits, i) == Cardinality({j \in hits : j = i \/ Better(s, query, j, i)})

Top(s, query, candidates, limit) ==
    LET hits  == {i \in candidates : Similarity[query][s[i].about] >= Threshold}
        count == Cardinality(hits)
    IN  [r \in 1..(IF count < limit THEN count ELSE limit) |->
            s[CHOOSE i \in hits : Place(s, query, hits, i) = r].id]

SearchSimilarUsage(query, tool, limit) ==
    Top(memories, query, {i \in DOMAIN memories : tool \in {NoTool, memories[i].tool}}, limit)

SearchTextMemories(query, limit) == Top(texts, query, DOMAIN texts, limit)

\* s[-limit:] reversed.
Recent(s, limit) ==
    LET n == IF Len(s) < limit THEN Len(s) ELSE limit
    IN  [r \in 1..n |-> s[Len(s) + 1 - r].id]

------------------------------------------------------------------------------
(* Deleting. *)

DeleteById(id) ==
    \E i \in DOMAIN memories :
        /\ memories[i].id = id
        /\ memories' = RemoveAt(memories, i)
        /\ gone' = gone \cup {id}
        /\ UNCHANGED <<texts, issued, toolIds>>

DeleteTextMemory(id) ==
    \E i \in DOMAIN texts :
        /\ texts[i].id = id
        /\ texts' = RemoveAt(texts, i)
        /\ gone' = gone \cup {id}
        /\ UNCHANGED <<memories, issued, toolIds>>

\* What is left of list s, in its order, when the positions in `left' are kept.
Filtered(s, left) ==
    {[n \in 1..Cardinality(left) |-> s[from[n]]] :
        from \in {f \in [1..Cardinality(left) -> left] :
                     \A m, n \in 1..Cardinality(left) : m < n => f[m] < f[n]}}

\* clear_memories(tool, before).  A date of issued + 1 is no date filter.
\* Texts are only deleted when no tool is named.
ClearMemories(tool, before) ==
    /\ memories' \in Filtered(memories, {i \in DOMAIN memories :
           tool \notin {NoTool, memories[i].tool} \/ memories[i].id >= before})
    /\ texts' \in Filtered(texts, {i \in DOMAIN texts : tool # NoTool \/ texts[i].id >= before})
    /\ gone' = gone \cup (Ids(memories) \ Ids(memories')) \cup (Ids(texts) \ Ids(texts'))
    /\ UNCHANGED <<issued, toolIds>>
==============================================================================
