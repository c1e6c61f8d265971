------------------------------- MODULE Memory -------------------------------
(* src/lib/memory.ts: memory nodes, the store that holds them, and what a MemoryManager     *)
(* keeps beside the store: an index, a graph, a cache, snapshots, an archive.               *)
(*                                                                                          *)
(* A node is an object: the store, the deleted nodes and the cache hold references to it,   *)
(* and two nodes may bear the same id.  `heap` is the sequence of the nodes ever made, a    *)
(* reference an index of it.  A call that throws leaves what it did before the throw.       *)
EXTENDS Integers, FiniteSets, SequencesExt, FiniteSetsExt

CONSTANTS
    MaxEntries,       \* configuration.maxEntries of the store
    CacheSize,        \* capacity of the cache
    SnapshotLimit,    \* capacity of the snapshot manager
    WorkingTTL, ShortTermTTL, LongTermTTL, ArchiveAfter, DeleteAfter

ASSUME MemoryAssumption ==
    /\ {MaxEntries, CacheSize, SnapshotLimit} \subseteq Nat \ {0}
    /\ {WorkingTTL, ShortTermTTL, LongTermTTL, ArchiveAfter, DeleteAfter} \subseteq Nat

VARIABLES
    heap,        \* nodes by reference
    store,       \* references of the nodes of the store, in insertion order
    removed,     \* references of its deletedNodes
    tally,       \* its statistics: [total, active, deleted]
    index,       \* [entries: pairs of a bucket and an id, count]
    links,       \* [keys, edges, count] of the graph
    cache,       \* references, least recently used first
    snapshots,   \* saved entries, oldest first
    open,        \* operations recorded by each open transaction, innermost last
    archive,     \* id -> archived entry
    verdicts,    \* what retention has counted: [archived, expired, deleted]
    now          \* Date.now()

memoryVars == <<heap, store, removed, tally, index, links, cache, snapshots, open, archive, verdicts, now>>

storeVars == <<store, removed, tally>>

-----------------------------------------------------------------------------
(* Nodes *)

\* A node over a caller's entry; the flags are not part of what is serialized.
NewNode(entry) == entry @@ [frozen |-> FALSE, archived |-> FALSE, deleted |-> FALSE]

\* An entry as callers make one: version 1, no versions, accessed never.
Entry(id, type, value, confidence, tags, labels, time) ==
    [id |-> id, type |-> type, state |-> "active", priority |-> "normal", value |-> value,
     confidence |-> confidence, tags |-> tags, labels |-> labels, related |-> {}, version |-> 1,
     versions |-> <<>>, updated |-> time, accessed |-> 0]

Serialized(node) == [f \in DOMAIN node \ {"frozen", "archived", "deleted"} |-> node[f]]

Mutable(node) == ~node.deleted /\ ~node.archived /\ ~node.frozen /\ node.state # "locked"

\* commitMutation: the version is counted before it is recorded.
Committed(node) ==
    [node EXCEPT !.version = @ + 1, !.updated = now,
                 !.versions = Append(@, [version |-> node.version + 1, snapshot |-> node.value])]

\* The setters: those that change nothing commit nothing, the others always commit.
Changed(node, op, arg) ==
    CASE op = "setValue"      -> Committed([node EXCEPT !.value = arg])
      [] op = "setState"      -> IF node.state = arg THEN node ELSE Committed([node EXCEPT !.state = arg])
      [] op = "setPriority"   -> IF node.priority = arg THEN node ELSE Committed([node EXCEPT !.priority = arg])
      [] op = "setConfidence" -> Committed([node EXCEPT !.confidence = arg])
      [] op = "addTag"        -> IF arg \in node.tags THEN node ELSE Committed([node EXCEPT !.tags = @ \cup {arg}])
      [] op = "removeTag"     -> IF arg \in node.tags THEN Committed([node EXCEPT !.tags = @ \ {arg}]) ELSE node
      [] op = "clearTags"     -> IF node.tags = {} THEN node ELSE Committed([node EXCEPT !.tags = {}])
      [] op = "addLabel"      -> IF arg \in node.labels THEN node ELSE Committed([node EXCEPT !.labels = @ \cup {arg}])
      [] op = "addRelated"    -> IF arg \in node.related THEN node ELSE Committed([node EXCEPT !.related = @ \cup {arg}])
      [] op = "reset"         -> Committed([node EXCEPT !.accessed = 0])

\* merge: the value of the more confident of the two, and what both say otherwise.
Merged(node, other) ==
    Committed([node EXCEPT
        !.value      = IF other.confidence > node.confidence THEN other.value ELSE @,
        !.tags       = @ \cup other.tags,
        !.labels     = @ \cup other.labels,
        !.confidence = IF other.confidence > @ THEN other.confidence ELSE @])

Setter(ref, op, arg) ==
    /\ Mutable(heap[ref])
    /\ heap' = [heap EXCEPT ![ref] = Changed(@, op, arg)]
    /\ UNCHANGED <<storeVars, index, links, cache, snapshots, open, archive, verdicts, now>>

\* freeze, unfreeze, archive, restore and delete look at nothing.
Flag(ref, op) ==
    /\ heap' = [heap EXCEPT ![ref] =
          CASE op = "freeze"   -> [@ EXCEPT !.frozen = TRUE]
            [] op = "unfreeze" -> [@ EXCEPT !.frozen = FALSE]
            [] op = "archive"  -> Committed([@ EXCEPT !.archived = TRUE, !.state = "archived"])
            [] op = "restore"  -> Committed([@ EXCEPT !.archived = FALSE, !.deleted = FALSE, !.state = "active"])
            [] op = "delete"   -> Committed([@ EXCEPT !.deleted = TRUE, !.state = "deleted"])]
    /\ UNCHANGED <<storeVars, index, links, cache, snapshots, open, archive, verdicts, now>>

Touch(ref) ==
    /\ heap' = [heap EXCEPT ![ref].accessed = @ + 1]
    /\ UNCHANGED <<storeVars, index, links, cache, snapshots, open, archive, verdicts, now>>

-----------------------------------------------------------------------------
(* Maps of references by id *)

IdOf(ref) == heap[ref].id

\* Map.set over a map in insertion order: a known key keeps its place.
Stored(refs, ref) ==
    IF \E i \in DOMAIN refs : IdOf(refs[i]) = IdOf(ref)
    THEN [i \in DOMAIN refs |-> IF IdOf(refs[i]) = IdOf(ref) THEN ref ELSE refs[i]]
    ELSE Append(refs, ref)

Under(refs, id) == {r \in refs : IdOf(r) = id}

Without(refs, id) == SelectSeq(refs, LAMBDA r : IdOf(r) # id)

InStore == ToSet(store)

-----------------------------------------------------------------------------
(* Index and graph *)

\* The buckets a node belongs to as it is now.
Buckets(node) ==
    {<<"type", node.type>>, <<"state", node.state>>, <<"priority", node.priority>>}
      \cup {<<"tag", t>> : t \in node.tags} \cup {<<"label", l>> : l \in node.labels}

Indexed(ix, node) ==
    [entries |-> ix.entries \cup (Buckets(node) \X {node.id}), count |-> ix.count + 1]

Unindexed(ix, node) ==
    [entries |-> ix.entries \ (Buckets(node) \X {node.id}),
     count   |-> IF ix.count = 0 THEN 0 ELSE ix.count - 1]

NoIndex == [entries |-> {}, count |-> 0]

RebuildIndex ==
    /\ index' = FoldSeq(LAMBDA r, ix : Indexed(ix, heap[r]), NoIndex, store)
    /\ UNCHANGED <<heap, storeVars, links, cache, snapshots, open, archive, verdicts, now>>

AddLink(from, to) ==
    /\ links' = [keys  |-> links.keys \cup {from}, edges |-> links.edges \cup {<<from, to>>},
                 count |-> IF <<from, to>> \in links.edges THEN links.count ELSE links.count + 1]
    /\ UNCHANGED <<heap, storeVars, index, cache, snapshots, open, archive, verdicts, now>>

RemoveLink(from, to) ==
    /\ <<from, to>> \in links.edges
    /\ links' = [links EXCEPT !.edges = @ \ {<<from, to>>}, !.count = @ - 1]
    /\ UNCHANGED <<heap, storeVars, index, cache, snapshots, open, archive, verdicts, now>>

\* Only the outgoing edges are taken from the count.
Unlinked(g, id) ==
    [keys  |-> g.keys \ {id}, edges |-> {e \in g.edges : id \notin {e[1], e[2]}},
     count |-> g.count - Cardinality({e \in g.edges : e[1] = id})]

Neighbors(id) == {e[2] : e \in {f \in links.edges : f[1] = id}}

-----------------------------------------------------------------------------
(* The manager, and the store callers reach through it *)

\* add: the store refuses a known id and a full store before anything is indexed.
Add(ref, nodes) ==
    /\ nodes[ref].id \notin {IdOf(r) : r \in InStore}
    /\ Len(store) < MaxEntries
    /\ heap' = nodes
    /\ store' = Append(store, ref)
    /\ tally' = [tally EXCEPT !.total = @ + 1, !.active = @ + 1]
    /\ index' = Indexed(index, nodes[ref])
    /\ UNCHANGED <<removed, links, cache, snapshots, open, archive, verdicts, now>>

AddMade(entry) == Add(Len(heap) + 1, Append(heap, NewNode(entry)))

AddHeld(ref) == Add(ref, heap)

\* add, over new nodes of the given entries, up to the one a full store refuses.
AddAll(entries) ==
    \E fit \in {Min({Len(entries), MaxEntries - Len(store)})} :
       /\ heap' = heap \o [i \in 1 .. fit |-> NewNode(entries[i])]
       /\ store' = store \o [i \in 1 .. fit |-> Len(heap) + i]
       /\ tally' = [tally EXCEPT !.total = @ + fit, !.active = @ + fit]
       /\ index' = FoldSeq(LAMBDA e, ix : Indexed(ix, e), index, SubSeq(entries, 1, fit))
       /\ UNCHANGED <<removed, links, cache, snapshots, open, archive, verdicts, now>>

\* A manager callers have added the given entries to.
MemoryInit(entries) ==
    /\ heap = [i \in DOMAIN entries |-> NewNode(entries[i])]
    /\ store = [i \in DOMAIN entries |-> i]
    /\ index = FoldSeq(LAMBDA e, ix : Indexed(ix, e), NoIndex, entries)
    /\ tally = [total |-> Len(entries), active |-> Len(entries), deleted |-> 0]
    /\ removed = {} /\ cache = <<>> /\ snapshots = <<>> /\ open = <<>> /\ archive = <<>> /\ now = 0
    /\ links = [keys |-> {}, edges |-> {}, count |-> 0]
    /\ verdicts = [archived |-> 0, expired |-> 0, deleted |-> 0]

\* get: the cache first; what only the store has goes to the cache, whose oldest entry falls out.
Get(id) ==
    /\ \E r \in ToSet(cache) \cup InStore :
          /\ IdOf(r) = id
          /\ Under(ToSet(cache), id) # {} => r \in ToSet(cache)
          /\ \E kept \in {Append(Without(cache, id), r)} :
                cache' = IF Len(kept) > CacheSize THEN Tail(kept) ELSE kept
    /\ UNCHANGED <<heap, storeVars, index, links, snapshots, open, archive, verdicts, now>>

\* What is removed is not kept among the deleted nodes.
TakenForGood(s, id) ==
    IF Under(ToSet(s.store), id) = {} THEN s
    ELSE [store |-> Without(s.store, id), removed |-> s.removed, tally |-> [s.tally EXCEPT !.active = @ - 1, !.deleted = @ + 1]]

\* store.remove
Taken(s, id) ==
    IF Under(ToSet(s.store), id) = {} THEN s
    ELSE [store   |-> Without(s.store, id),
          removed |-> (s.removed \ Under(s.removed, id)) \cup Under(ToSet(s.store), id),
          tally   |-> [s.tally EXCEPT !.active = @ - 1, !.deleted = @ + 1]]

StoreNow == [store |-> store, removed |-> removed, tally |-> tally]

StoreBecomes(s) == store' = s.store /\ removed' = s.removed /\ tally' = s.tally

RemoveMemory(id) ==
    /\ cache' = Without(cache, id)
    /\ index' = FoldSet(LAMBDA r, ix : Unindexed(ix, heap[r]), index, Under(InStore, id))
    /\ links' = Unlinked(links, id)
    /\ StoreBecomes(Taken(StoreNow, id))
    /\ UNCHANGED <<heap, snapshots, open, archive, verdicts, now>>

\* store.restore: whatever the id names now is replaced, and neither the limit nor the index is asked.
RestoreDeleted(id) ==
    \E r \in Under(removed, id) :
       /\ store' = Stored(store, r)
       /\ removed' = removed \ {r}
       /\ tally' = [tally EXCEPT !.active = @ + 1, !.deleted = @ - 1]
       /\ UNCHANGED <<heap, index, links, cache, snapshots, open, archive, verdicts, now>>

\* store.replace; store.update is the same for an id the store has.
Replace(ref) ==
    /\ store' = Stored(store, ref)
    /\ UNCHANGED <<heap, removed, tally, index, links, cache, snapshots, open, archive, verdicts, now>>

ClearStore ==
    /\ StoreBecomes([store |-> <<>>, removed |-> {}, tally |-> [total |-> 0, active |-> 0, deleted |-> 0]])
    /\ UNCHANGED <<heap, index, links, cache, snapshots, open, archive, verdicts, now>>

\* compact drops the archived ones of the deleted nodes; vacuum recounts as well.
Compact(recount) ==
    /\ \E kept \in {{r \in removed : ~heap[r].archived}} :
          /\ removed' = kept
          /\ tally' = IF recount THEN [total |-> Len(store), active |-> Len(store), deleted |-> Cardinality(kept)]
                      ELSE [tally EXCEPT !.deleted = Cardinality(kept)]
    /\ UNCHANGED <<heap, store, index, links, cache, snapshots, open, archive, verdicts, now>>

-----------------------------------------------------------------------------
(* Consolidation and conflicts *)

\* similarity >= 0.9: the same content; or the same type and state, and tags and labels that
\* together miss at most a third of one of the two.
Similar(a, b) ==
    \/ a.value = b.value
    \/ /\ a.type = b.type /\ a.state = b.state
       /\ \E tags \in {Max({Cardinality(a.tags), Cardinality(b.tags), 1})},
             labels \in {Max({Cardinality(a.labels), Cardinality(b.labels), 1})} :
             3 * (Cardinality(a.tags \cap b.tags) * labels + Cardinality(a.labels \cap b.labels) * tags)
                >= 5 * tags * labels

\* findDuplicates: every pair in store order, before any of them is merged.
Duplicates ==
    LET pairs == SetToSortSeq({<<i, j>> \in (DOMAIN store) \X (DOMAIN store) : i < j},
                              LAMBDA p, q : p[1] < q[1] \/ (p[1] = q[1] /\ p[2] < q[2]))
    IN SelectSeq([k \in DOMAIN pairs |-> <<store[pairs[k][1]], store[pairs[k][2]]>>],
                 LAMBDA p : Similar(heap[p[1]], heap[p[2]]))

\* One pair: merge throws over a primary that cannot change, and the rest is not reached.
MergePair(pair, s) ==
    IF s.thrown \/ ~Mutable(s.heap[pair[1]]) THEN [s EXCEPT !.thrown = TRUE]
    ELSE [heap   |-> [s.heap EXCEPT ![pair[1]] = Merged(@, s.heap[pair[2]])],
          left   |-> Taken(s.left, IdOf(pair[2])),
          thrown |-> FALSE]

Consolidate ==
    /\ \E s \in {FoldLeft(LAMBDA acc, pair : MergePair(pair, acc),
                          [heap |-> heap, left |-> StoreNow, thrown |-> FALSE], Duplicates)} :
          heap' = s.heap /\ StoreBecomes(s.left)
    /\ UNCHANGED <<index, links, cache, snapshots, open, archive, verdicts, now>>

\* resolve: every strategy but merging picks one of the two and changes neither.
Resolve(first, second) ==
    /\ Mutable(heap[first])
    /\ heap' = [heap EXCEPT ![first] = Merged(@, heap[second])]
    /\ UNCHANGED <<storeVars, index, links, cache, snapshots, open, archive, verdicts, now>>

-----------------------------------------------------------------------------
(* Snapshots, transactions, retention, archive *)

Kept(saved) == IF Len(saved) > SnapshotLimit THEN Tail(saved) ELSE saved

StoreSnapshot == [i \in DOMAIN store |-> Serialized(heap[store[i]])]

Snapshot ==
    /\ snapshots' = Kept(Append(snapshots, StoreSnapshot))
    /\ UNCHANGED <<heap, storeVars, index, links, cache, open, archive, verdicts, now>>

Begin ==
    /\ open' = Append(open, 0)
    /\ UNCHANGED <<heap, storeVars, index, links, cache, snapshots, archive, verdicts, now>>

RecordOperation ==
    /\ open # <<>>
    /\ open' = [open EXCEPT ![Len(open)] = @ + 1]
    /\ UNCHANGED <<heap, storeVars, index, links, cache, snapshots, archive, verdicts, now>>

\* commit saves the store; rollback only closes the transaction and hands out the last snapshot.
EndTransaction(commit) ==
    /\ open # <<>>
    /\ open' = Front(open)
    /\ snapshots' = IF commit THEN Kept(Append(snapshots, StoreSnapshot)) ELSE snapshots
    /\ UNCHANGED <<heap, storeVars, index, links, cache, archive, verdicts, now>>

Expired(node) ==
    \/ node.type = "working"    /\ now - node.updated > WorkingTTL
    \/ node.type = "short-term" /\ now - node.updated > ShortTermTTL
    \/ node.type = "long-term"  /\ now - node.updated > LongTermTTL

Lifecycle(node) ==
    IF now - node.updated > DeleteAfter THEN "deleted"
    ELSE IF now - node.updated > ArchiveAfter THEN "archived"
    ELSE IF Expired(node) THEN "consolidated" ELSE "active"

\* evaluateRetention judges every node and acts on none.
EvaluateRetention ==
    /\ \E judged \in {[l \in {"archived", "consolidated", "deleted"} |->
                          Cardinality({r \in InStore : Lifecycle(heap[r]) = l})]} :
          verdicts' = [archived |-> verdicts.archived + judged["archived"],
                       expired  |-> verdicts.expired + judged["consolidated"],
                       deleted  |-> verdicts.deleted + judged["deleted"]]
    /\ UNCHANGED <<heap, storeVars, index, links, cache, snapshots, open, archive, now>>

Archive(ref) ==
    /\ archive' = (IdOf(ref) :> Serialized(heap[ref])) @@ archive
    /\ UNCHANGED <<heap, storeVars, index, links, cache, snapshots, open, verdicts, now>>

\* restoreNode makes a new node of what was archived, without the flags it had.
Unarchive(id) ==
    /\ id \in DOMAIN archive
    /\ heap' = Append(heap, NewNode(archive[id]))
    /\ UNCHANGED <<storeVars, index, links, cache, snapshots, open, archive, verdicts, now>>

RemoveArchived(id) ==
    /\ archive' = [i \in DOMAIN archive \ {id} |-> archive[i]]
    /\ UNCHANGED <<heap, storeVars, index, links, cache, snapshots, open, verdicts, now>>

Elapse ==
    /\ now' = now + 1
    /\ UNCHANGED <<heap, storeVars, index, links, cache, snapshots, open, archive, verdicts>>
=============================================================================
