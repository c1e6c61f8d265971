----------------------------- MODULE MCKnowledge -----------------------------
(* Instances of Knowledge for TLC. *)
EXTENDS Knowledge

CONSTANTS s1, s2

Node(id, type, value, confidence) == Entry(id, type, value, confidence, {"tag"}, {"label"}, 0)

\* 1 and 2 say the same, 2 and 3 are of one kind; 1 and 3 have nothing in common.
Chain == <<Node(1, "working", <<"x", 0>>, 40), Node(2, "long-term", <<"x", 0>>, 60),
           Node(3, "long-term", <<"y", 0>>, 90)>>

ChainOnly == {Chain}

TwinEntries == {Node(2, "working", <<"x", 0>>, 60)}

SomeChanges == {<<"setValue", <<"y", 0>>>>, <<"setState", "locked">>, <<"addTag", "new">>}

Candidate(id, category, confidence, priority, blocking, formed) ==
    [id |-> id, category |-> category, title |-> "t", confidence |-> confidence, priority |-> priority,
     benefit |-> 1, blocking |-> blocking, formed |-> formed]

Rule(priority, categories, throws, emits) ==
    [enabled |-> TRUE, priority |-> priority, categories |-> categories, throws |-> throws, emits |-> emits]

\* Two rules on the same matter, one of which blocks; one that throws; one switched off.
SomeRules ==
    [soft   |-> Rule(3, {"SECURITY"}, FALSE, <<Candidate(1, "SECURITY", 70, 1, FALSE, TRUE), Candidate(2, "API", 30, 0, FALSE, TRUE)>>),
     hard   |-> Rule(2, {}, FALSE, <<Candidate(3, "SECURITY", 90, 4, TRUE, TRUE), Candidate(4, "API", 80, 2, FALSE, FALSE)>>),
     broken |-> Rule(3, {}, TRUE, <<>>),
     off    |-> Rule(1, {"ROLLBACK"}, FALSE, <<Candidate(5, "ROLLBACK", 90, 3, TRUE, TRUE)>>)]

Evidence(id, type, confidence) == [id |-> id, type |-> type, title |-> "t", confidence |-> confidence]

SomeEvidence ==
    {Evidence(1, "severity", 20), Evidence(2, "severity", 70), Evidence(3, "impact", 90), Evidence(1, "impact", 40)}

SomeEdges == {[from |-> 1, to |-> 2, contradicts |-> TRUE]}

SomeRequests ==
    {<<[level |-> 1, confidence |-> 50], [level |-> 3, confidence |-> 90]>>,
     <<[level |-> 2, confidence |-> 80], [level |-> 3, confidence |-> 90]>>}
=============================================================================
