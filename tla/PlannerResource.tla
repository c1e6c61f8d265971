-------------------------- MODULE PlannerResource --------------------------
(***************************************************************************)
(* The resource subsystem of the planner (planner-resource.ts): resources  *)
(* with a capacity, pools of resources, and the ledger of reservations and *)
(* allocations that ResourceManager keeps against them.  Every method is   *)
(* synchronous and so one step.  A record of the ledger is known by its    *)
(* place in the order of insertion, the order in which a sweep meets it.   *)
(* A call that throws and changes nothing is a step that is not enabled.   *)
(***************************************************************************)
EXTENDS Integers, FiniteSets, SequencesExt

CONSTANTS
    ResourceIds,
    PoolIds,
    TaskIds,
    Capacities,       \* capacities a resource is registered with or set to
    Amounts,          \* amounts that are asked for
    States,           \* states setState() is called with
    MaxRecords,       \* bound: reservations, and allocations, of a manager
    MaxTime,          \* bound: of the clock
    MaxCalls,         \* bound: calls of the manager in a behaviour
    None              \* an absent resource, pool or expiry

\* ResourceState: of these only unavailability stops a mutation.
ResourceState == {"available", "reserved", "allocated", "exhausted", "unavailable"}

ASSUME ResourceAssumption ==
    /\ Capacities \subseteq Nat
    /\ Amounts \subseteq Nat
    /\ States \subseteq ResourceState
    /\ MaxRecords \in Nat /\ MaxTime \in Nat /\ MaxCalls \in Nat
    /\ None \notin Nat /\ None \notin ResourceIds /\ None \notin TaskIds

VARIABLES
    resources,        \* resourcesById
    pools,            \* poolsById: the resource ids of a pool
    reservations,     \* the ledger's reservationsById
    allocations,      \* the ledger's allocationsById
    clock,
    saved,            \* the snapshot kept by a caller, or None
    calls,            \* calls that are left to the users of the manager
    uncounted,        \* history: resources whose figures did not start from the ledger
    shrunk            \* history: resources whose capacity was lowered

historyVars == <<uncounted, shrunk>>
resourceVars == <<resources, pools, reservations, allocations, clock, saved, calls, uncounted, shrunk>>

---------------------------------------------------------------------------
(* Records *)

Resource == [capacity: Nat, allocated: Nat, reserved: Nat, state: ResourceState, frozen: BOOLEAN]

ASSUME AbsenceAssumption == None \notin Resource

ReservationStatus == {"active", "converted", "released", "expired"}

Reservation ==
    [resource: ResourceIds, task: TaskIds, amount: Nat \ {0}, status: ReservationStatus,
     expiresAt: Nat \cup {None}]

Allocation == [resource: ResourceIds, task: TaskIds, amount: Nat \ {0}, released: BOOLEAN]

Registered == {r \in ResourceIds : resources[r] # None}

Floor0(n) == IF n < 0 THEN 0 ELSE n

Available(resource) == Floor0(resource.capacity - resource.allocated - resource.reserved)

HasCapacityFor(resource, amount) == amount > 0 /\ Available(resource) >= amount

OverCommitted(resource) == resource.allocated + resource.reserved > resource.capacity

\* assertMutable() does not throw.
Mutable(resource) == ~resource.frozen /\ resource.state # "unavailable"

\* The amounts of a resource after reserveAmount(), releaseReservation(), ...
Reserving(resource, amount) == [resource EXCEPT !.reserved = @ + amount]
Unreserving(resource, amount) == [resource EXCEPT !.reserved = Floor0(@ - amount)]
Allocating(resource, amount) == [resource EXCEPT !.allocated = @ + amount]
CommittingTwice(resource, amount) == [resource EXCEPT !.allocated = @ + amount]
Committing(resource, amount) ==
    [resource EXCEPT !.reserved = @ - amount, !.allocated = @ + amount]
Unallocating(resource, amount) == [resource EXCEPT !.allocated = Floor0(@ - amount)]

\* Records that hold capacity of resource r.
ActiveReservations(r) ==
    {i \in DOMAIN reservations : reservations[i].resource = r /\ reservations[i].status = "active"}
ActiveAllocations(r) ==
    {j \in DOMAIN allocations : allocations[j].resource = r /\ ~allocations[j].released}

Call == calls > 0 /\ calls' = calls - 1

---------------------------------------------------------------------------
(* Registration *)

\* registerResource(): an absent id; the record may bring figures of its own.
Register(r, capacity, allocated) ==
    /\ Call
    /\ resources[r] = None
    /\ resources' = [resources EXCEPT ![r] =
            [capacity |-> capacity, allocated |-> allocated, reserved |-> 0,
             state |-> "available", frozen |-> FALSE]]
    /\ uncounted' = IF allocated > 0 \/ ActiveReservations(r) # {} \/ ActiveAllocations(r) # {}
                    THEN uncounted \cup {r} ELSE uncounted
    /\ shrunk' = IF allocated > capacity THEN shrunk \cup {r} ELSE shrunk
    /\ UNCHANGED <<pools, reservations, allocations, clock, saved>>

\* removeResource(): only by force while the ledger holds something of it.
RemoveResource(r, force) ==
    /\ Call
    /\ resources[r] # None
    /\ force \/ (ActiveReservations(r) = {} /\ ActiveAllocations(r) = {})
    /\ resources' = [resources EXCEPT ![r] = None]
    /\ pools' = [p \in PoolIds |-> IF pools[p] = None THEN None ELSE pools[p] \ {r}]
    /\ UNCHANGED <<reservations, allocations, clock, saved, uncounted, shrunk>>

SetState(r, state) ==
    /\ Call
    /\ resources[r] # None /\ ~resources[r].frozen
    /\ resources' = [resources EXCEPT ![r].state = state]
    /\ UNCHANGED <<pools, reservations, allocations, clock, saved, uncounted, shrunk>>

SetFrozen(r, frozen) ==
    /\ Call
    /\ resources[r] # None
    /\ resources' = [resources EXCEPT ![r].frozen = frozen]
    /\ UNCHANGED <<pools, reservations, allocations, clock, saved, uncounted, shrunk>>

SetCapacity(r, capacity) ==
    /\ Call
    /\ resources[r] # None /\ Mutable(resources[r])
    /\ resources' = [resources EXCEPT ![r].capacity = capacity]
    /\ shrunk' = IF capacity < resources[r].capacity THEN shrunk \cup {r} ELSE shrunk
    /\ UNCHANGED <<pools, reservations, allocations, clock, saved, uncounted>>

\* registerPool() takes whatever ids the pool names, known or not.
RegisterPool(p, ids) ==
    /\ Call
    /\ pools[p] = None
    /\ pools' = [pools EXCEPT ![p] = ids]
    /\ UNCHANGED <<resources, reservations, allocations, clock, saved, uncounted, shrunk>>

RemovePool(p) ==
    /\ Call
    /\ pools[p] # None
    /\ pools' = [pools EXCEPT ![p] = None]
    /\ UNCHANGED <<resources, reservations, allocations, clock, saved, uncounted, shrunk>>

AddToPool(p, r) ==
    /\ Call
    /\ pools[p] # None /\ resources[r] # None
    /\ pools' = [pools EXCEPT ![p] = @ \cup {r}]
    /\ UNCHANGED <<resources, reservations, allocations, clock, saved, uncounted, shrunk>>

RemoveFromPool(p, r) ==
    /\ Call
    /\ pools[p] # None
    /\ pools' = [pools EXCEPT ![p] = @ \ {r}]
    /\ UNCHANGED <<resources, reservations, allocations, clock, saved, uncounted, shrunk>>

---------------------------------------------------------------------------
(* Reservations *)

\* reserve(): what reserveAmount() refuses, the ledger has refused before it.
Reservable(rs, r, amount) ==
    rs[r] # None /\ HasCapacityFor(rs[r], amount) /\ Mutable(rs[r])

NewReservation(r, task, amount, expiresAt) ==
    [resource |-> r, task |-> task, amount |-> amount, status |-> "active",
     expiresAt |-> expiresAt]

Reserve(r, task, amount, expiresAt) ==
    /\ Call
    /\ Len(reservations) < MaxRecords
    /\ Reservable(resources, r, amount)
    /\ resources' = [resources EXCEPT ![r] = Reserving(@, amount)]
    /\ reservations' = Append(reservations, NewReservation(r, task, amount, expiresAt))
    /\ UNCHANGED <<pools, allocations, clock, saved, uncounted, shrunk>>

\* release(): an active reservation of a resource that may be changed.
Releasable(rs, book, i) ==
    /\ book[i].status = "active"
    /\ rs[book[i].resource] # None /\ Mutable(rs[book[i].resource])

\* A manager's books: its resources and its reservations, and whether a batch still succeeds.
Books(rs, book) == [rs |-> rs, book |-> book, ok |-> TRUE]

Closed(books, i, status) ==
    LET r == books.book[i].resource
    IN  [books EXCEPT
            !.rs = [books.rs EXCEPT ![r] = Unreserving(books.rs[r], books.book[i].amount)],
            !.book = [books.book EXCEPT ![i].status = status]]

\* releaseReservation(), as the executor calls it: an error is swallowed.
Released(books, i) ==
    IF Releasable(books.rs, books.book, i) THEN Closed(books, i, "released") ELSE books

\* The reservations of a list, one after the other.
Releasing(books, list) ==
    LET released[n \in 0 .. Len(list)] ==
            IF n = 0 THEN books ELSE Released(released[n - 1], list[n])
    IN  released
AllReleased(books, list) == Releasing(books, list)[Len(list)]

ReleaseReservation(i) ==
    /\ Call
    /\ Releasable(resources, reservations, i)
    /\ resources' = Closed(Books(resources, reservations), i, "released").rs
    /\ reservations' = Closed(Books(resources, reservations), i, "released").book
    /\ UNCHANGED <<pools, allocations, clock, saved, uncounted, shrunk>>

\* One requirement of a batch; after a failure the earlier ones are given back.
Requirement(books, requirement, task, first) ==
    IF ~books.ok THEN books
    ELSE IF Reservable(books.rs, requirement.resource, requirement.amount)
    THEN [books EXCEPT
            !.rs = [books.rs EXCEPT ![requirement.resource] = Reserving(@, requirement.amount)],
            !.book = Append(books.book, NewReservation(requirement.resource, task, requirement.amount, None))]
    ELSE [AllReleased(books, [k \in 1..(Len(books.book) - first) |-> first + k]) EXCEPT !.ok = FALSE]

\* reserveForRequirements(): all of them or none.
Batching(requirements, task) ==
    LET books[n \in 0 .. Len(requirements)] ==
            IF n = 0 THEN Books(resources, reservations)
            ELSE Requirement(books[n - 1], requirements[n], task, Len(reservations))
    IN  books
Batch(requirements, task) == Batching(requirements, task)[Len(requirements)]

ReserveBatch(requirements, task) ==
    /\ Call
    /\ Len(reservations) + Len(requirements) <= MaxRecords
    /\ resources' = Batch(requirements, task).rs
    /\ reservations' = Batch(requirements, task).book
    /\ UNCHANGED <<pools, allocations, clock, saved, uncounted, shrunk>>

Due(i) ==
    /\ reservations[i].status = "active"
    /\ reservations[i].expiresAt # None /\ reservations[i].expiresAt <= clock

\* One reservation of a sweep: skipped without its resource; an error ends the sweep.
Swept(books, i) ==
    IF ~books.ok \/ ~Due(i) \/ books.rs[books.book[i].resource] = None THEN books
    ELSE IF Mutable(books.rs[books.book[i].resource]) THEN Closed(books, i, "expired")
    ELSE [books EXCEPT !.ok = FALSE]

Sweeping ==
    LET books[n \in 0 .. Len(reservations)] ==
            IF n = 0 THEN Books(resources, reservations) ELSE Swept(books[n - 1], n)
    IN  books
Sweep == Sweeping[Len(reservations)]

\* expireReservations()
ExpireDue ==
    /\ Call
    /\ resources' = Sweep.rs
    /\ reservations' = Sweep.book
    /\ UNCHANGED <<pools, allocations, clock, saved, uncounted, shrunk>>

---------------------------------------------------------------------------
(* Allocations *)

NewAllocation(r, task, amount) ==
    [resource |-> r, task |-> task, amount |-> amount, released |-> FALSE]

AllocateDirect(r, task, amount) ==
    /\ Call
    /\ Len(allocations) < MaxRecords
    /\ Reservable(resources, r, amount)
    /\ resources' = [resources EXCEPT ![r] = Allocating(@, amount)]
    /\ allocations' = Append(allocations, NewAllocation(r, task, amount))
    /\ UNCHANGED <<pools, reservations, clock, saved, uncounted, shrunk>>

\* allocate() with a reservation: its capacity never passes through "available".
Convert(i) ==
    LET reservation == reservations[i]
        r == reservation.resource
    IN  /\ Call
        /\ Len(allocations) < MaxRecords
        /\ reservation.status = "active"
        /\ resources[r] # None /\ Mutable(resources[r])
        /\ reservation.amount <= resources[r].reserved
        /\ resources' = [resources EXCEPT ![r] = Committing(@, reservation.amount)]
        /\ reservations' = [reservations EXCEPT ![i].status = "converted"]
        /\ allocations' = Append(allocations, NewAllocation(r, reservation.task, reservation.amount))
        /\ UNCHANGED <<pools, clock, saved, uncounted, shrunk>>

ReleaseAllocation(j) ==
    LET r == allocations[j].resource
    IN  /\ Call
        /\ ~allocations[j].released
        /\ resources[r] # None /\ Mutable(resources[r])
        /\ resources' = [resources EXCEPT ![r] = Unallocating(@, allocations[j].amount)]
        /\ allocations' = [allocations EXCEPT ![j].released = TRUE]
        /\ UNCHANGED <<pools, reservations, clock, saved, uncounted, shrunk>>

---------------------------------------------------------------------------
(* Snapshots, conflicts, time *)

TakeSnapshot ==
    /\ Call
    /\ saved = None
    /\ saved' = [resources |-> resources, pools |-> pools]
    /\ UNCHANGED <<resources, pools, reservations, allocations, clock, uncounted, shrunk>>

\* restoreSnapshot(): figures come back, the ledger does not.
RestoreSnapshot ==
    /\ Call
    /\ saved # None
    /\ resources' = saved.resources
    /\ pools' = saved.pools
    /\ reservations' = <<>> /\ allocations' = <<>>
    /\ uncounted' = uncounted \cup
            {r \in ResourceIds : /\ saved.resources[r] # None
                                 /\ saved.resources[r].allocated + saved.resources[r].reserved > 0}
    /\ UNCHANGED <<clock, saved, shrunk>>

\* detectResourceConflicts() and detectPoolConflicts()
Conflicts ==
    {<<"over-allocation", r>> : r \in {q \in Registered : OverCommitted(resources[q])}}
    \cup {<<"state-mismatch", r>> : r \in {q \in Registered :
            \/ resources[q].state = "available" /\ Available(resources[q]) = 0
            \/ resources[q].state = "unavailable" /\ resources[q].allocated > 0}}
    \cup {<<"dangling-reference", r>> : r \in
            (UNION {pools[p] : p \in {q \in PoolIds : pools[q] # None}}) \ Registered}

\* findOrphanedRecords(): any record, closed or not, of a resource that is gone.
Orphans ==
    {i \in DOMAIN reservations : reservations[i].resource \notin Registered}
    \cup {Len(reservations) + j : j \in
            {k \in DOMAIN allocations : allocations[k].resource \notin Registered}}

\* runAll() of ResourceDiagnostics
Healthy ==
    /\ \A r \in Registered : ~OverCommitted(resources[r])
    /\ \A p \in PoolIds : pools[p] # None => pools[p] \subseteq Registered
    /\ Orphans = {}

Tick ==
    /\ Call
    /\ clock < MaxTime
    /\ clock' = clock + 1
    /\ UNCHANGED <<resources, pools, reservations, allocations, saved, uncounted, shrunk>>

\* What an owner of the manager does to its resources and pools.
Manage ==
    \/ \E r \in ResourceIds, c \in Capacities : Register(r, c, 0) \/ SetCapacity(r, c)
    \/ \E r \in ResourceIds, c \in Capacities, a \in Amounts : Register(r, c, a)
    \/ \E r \in ResourceIds, force \in BOOLEAN : RemoveResource(r, force) \/ SetFrozen(r, force)
    \/ \E r \in ResourceIds, s \in States : SetState(r, s)
    \/ \E p \in PoolIds, ids \in SUBSET ResourceIds : RegisterPool(p, ids)
    \/ \E p \in PoolIds, r \in ResourceIds : AddToPool(p, r) \/ RemoveFromPool(p, r)
    \/ \E p \in PoolIds : RemovePool(p)
    \/ TakeSnapshot \/ RestoreSnapshot

\* What its users do to the ledger.
Account ==
    \/ \E r \in ResourceIds, t \in TaskIds, a \in Amounts, x \in (0..MaxTime) \cup {None} :
            Reserve(r, t, a, x)
    \/ \E r \in ResourceIds, t \in TaskIds, a \in Amounts : AllocateDirect(r, t, a)
    \/ \E i \in DOMAIN reservations : ReleaseReservation(i) \/ Convert(i)
    \/ \E j \in DOMAIN allocations : ReleaseAllocation(j)
    \/ \E t \in TaskIds, r, q \in ResourceIds, a, b \in Amounts :
            ReserveBatch(<<[resource |-> r, amount |-> a], [resource |-> q, amount |-> b]>>, t)
    \/ ExpireDue
    \/ Tick

ResourceNext == Manage \/ Account

---------------------------------------------------------------------------
(* Properties *)

ResourceTypeOK ==
    /\ resources \in [ResourceIds -> Resource \cup {None}]
    /\ pools \in [PoolIds -> (SUBSET ResourceIds) \cup {None}]
    /\ reservations \in Seq(Reservation)
    /\ allocations \in Seq(Allocation)
    /\ clock \in Nat /\ calls \in Nat
    /\ saved \in [resources: [ResourceIds -> Resource \cup {None}],
                  pools: [PoolIds -> (SUBSET ResourceIds) \cup {None}]] \cup {None}
    /\ uncounted \subseteq ResourceIds /\ shrunk \subseteq ResourceIds

\* The sum of a sequence of amounts.
Summing(amounts) ==
    LET sum[n \in 0 .. Len(amounts)] == IF n = 0 THEN 0 ELSE sum[n - 1] + amounts[n]
    IN  sum
Total(amounts) == Summing(amounts)[Len(amounts)]

\* What the records in open hold.
HeldBy(records, open) == Total([i \in DOMAIN records |-> IF i \in open THEN records[i].amount ELSE 0])

\* The figures of a resource are exactly what the ledger's open records add up to, unless the resource
\* came with figures of its own or over records of an earlier one of its name; no sequence of calls,
\* conversion, expiry and a batch that fails in the middle included, commits more of a resource than
\* there is, unless its capacity was lowered; and what the diagnosis finds beyond that are the records
\* and pools a removed resource leaves behind.
FiguresAddUp ==
    \A r \in Registered \ uncounted :
        /\ resources[r].reserved = HeldBy(reservations, ActiveReservations(r))
        /\ resources[r].allocated = HeldBy(allocations, ActiveAllocations(r))
NeverOverCommitted ==
    \A r \in ResourceIds : <<"over-allocation", r>> \in Conflicts => r \in shrunk
LedgerExact ==
    /\ FiguresAddUp /\ NeverOverCommitted
    /\ shrunk = {} /\ ~Healthy => Orphans # {} \/ \E r \in ResourceIds : <<"dangling-reference", r>> \in Conflicts
=============================================================================
