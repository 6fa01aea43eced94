--------------------------- MODULE WorkItemStore ----------------------------
(***************************************************************************)
(* The watch's session rows: the WorkItemStore actor                       *)
(* (Sources/TokenLinkCore/WorkItemModels.swift) and the poll that feeds it *)
(* (CodexWorkItemTracker.poll).                                            *)
(*                                                                         *)
(* Every call of the actor is one action; the poll is a sequence of such   *)
(* calls.  A poll's listing is what thread/list returned, and provider     *)
(* times never go back.  An item's seenAt is only ever compared with its   *)
(* updatedAt, and an update clears it: seen says whether it is set.  Of a  *)
(* name only its owner is kept: custom, or else the provider's.            *)
(***************************************************************************)
EXTENDS Integers, FiniteSets

CONSTANTS
  Thread,       \* provider threads
  States,       \* the WorkItemStates the listings use
  MaxTime,      \* bound on the provider's updatedAt
  Capacity      \* WorkItemStore.capacity

WorkItemStates == {"needs_input", "failed", "running", "complete", "unknown"}

ASSUME StoreAssumption ==
  /\ States \subseteq WorkItemStates
  /\ MaxTime \in Nat \ {0}
  /\ Capacity \in Nat \ {0}

Time == 1 .. MaxTime
Slots == 0 .. Capacity - 1
Snapshot == [state : States, updatedAt : Time]
Item == [slot : Slots, state : States, updatedAt : Time,
         seen : BOOLEAN, custom : BOOLEAN]

VARIABLES
  storage,   \* the items, by thread
  listing,   \* the threads of the last poll
  todo,      \* the threads that poll has yet to upsert
  polling,   \* the step the poll is at
  repeated   \* the last poll listed what the one before it did

storeVars == <<storage, listing, todo, polling, repeated>>

Stored == DOMAIN storage

TypeOK ==
  /\ Stored \subseteq Thread /\ storage \in [Stored -> Item]
  /\ DOMAIN listing \subseteq Thread /\ listing \in [DOMAIN listing -> Snapshot]
  /\ todo \in SUBSET Thread
  /\ polling \in {"idle", "remove", "upsert"}
  /\ repeated \in BOOLEAN

Empty == [t \in {} |-> 0]

Init ==
  /\ storage = Empty
  /\ listing = Empty
  /\ todo = {}
  /\ polling = "idle"
  /\ repeated = FALSE

-----------------------------------------------------------------------------
(* Ranking *)

Priority(state) ==
  CASE state = "needs_input" -> 0
    [] state = "failed"      -> 1
    [] state = "running"     -> 2
    [] state = "complete"    -> 3
    [] state = "unknown"     -> 4

Outranks(a, b) ==
  \/ Priority(a.state) < Priority(b.state)
  \/ Priority(a.state) = Priority(b.state) /\ a.updatedAt > b.updatedAt

\* Mutated: the item that ranks highest is replaced.
Highest == {u \in Stored : \A v \in Stored : ~Outranks(storage[v], storage[u])}

\* Where nextSlot's scan of the dictionary may end: its order is arbitrary, so
\* any of the items that rank lowest.
Lowest == {u \in Stored : \A v \in Stored : ~Outranks(storage[u], storage[v])}

UsedSlots == {storage[u].slot : u \in Stored}

\* Mutated: the number of items is the next slot.
NextSlotByCount == {Cardinality(Stored)}

\* The first slot no item uses.
FreeSlots == {s \in Slots \ UsedSlots : \A r \in Slots : r < s => r \in UsedSlots}

NewItem(s, snapshot) ==
  [slot |-> s, state |-> snapshot.state, updatedAt |-> snapshot.updatedAt,
   seen |-> FALSE, custom |-> FALSE]

\* storage without the threads in Gone and with the item x for t.
With(t, x, Gone) ==
  [u \in (Stored \ Gone) \cup {t} |-> IF u = t THEN x ELSE storage[u]]

-----------------------------------------------------------------------------
(* The poll: removeMissing, then an upsert of each thread, newest first *)

\* fetchThreads succeeds.  Times that go back are not listed.
PollBegins ==
  /\ polling = "idle"
  /\ \E T \in SUBSET Thread : listing' \in [T -> Snapshot]
  /\ \A t \in DOMAIN listing \cap DOMAIN listing' :
       listing'[t].updatedAt >= listing[t].updatedAt
  /\ repeated' = (listing' = listing)
  /\ todo' = DOMAIN listing'
  /\ polling' = "remove"
  /\ UNCHANGED storage

RemoveMissing ==
  /\ polling = "remove"
  /\ storage' = [t \in Stored \cap DOMAIN listing |-> storage[t]]
  /\ polling' = "upsert"
  /\ UNCHANGED <<listing, todo, repeated>>

Take(t) ==
  /\ polling = "upsert"
  /\ t \in todo
  /\ \A u \in todo : listing[u].updatedAt <= listing[t].updatedAt
  /\ todo' = todo \ {t}
  /\ UNCHANGED <<listing, repeated, polling>>

\* Mutated: a new time alone leaves the item seen.
RefreshedState(item, snapshot) ==
  [item EXCEPT
    !.state = snapshot.state,
    !.updatedAt = snapshot.updatedAt,
    !.seen = @ /\ snapshot.state = item.state]

Refreshed(item, snapshot) ==
  [item EXCEPT
    !.state = snapshot.state,
    !.updatedAt = snapshot.updatedAt,
    !.seen = /\ @
             /\ snapshot.state = item.state
             /\ snapshot.updatedAt <= item.updatedAt]

UpsertExisting(t) ==
  /\ Take(t)
  /\ t \in Stored
  /\ storage' = [storage EXCEPT ![t] = Refreshed(@, listing[t])]

UpsertFree(t) ==
  /\ Take(t)
  /\ t \notin Stored
  /\ Cardinality(Stored) < Capacity
  /\ \E s \in FreeSlots : storage' = With(t, NewItem(s, listing[t]), {})

UpsertReplacing(t) ==
  /\ Take(t)
  /\ t \notin Stored
  /\ Cardinality(Stored) >= Capacity
  /\ \E u \in Lowest :
       /\ Outranks(listing[t], storage[u])
       /\ storage' = With(t, NewItem(storage[u].slot, listing[t]), {u})

UpsertDropped(t) ==
  /\ Take(t)
  /\ t \notin Stored
  /\ Cardinality(Stored) >= Capacity
  /\ \E u \in Lowest : ~Outranks(listing[t], storage[u])
  /\ UNCHANGED storage

PollEnds ==
  /\ polling = "upsert"
  /\ todo = {}
  /\ polling' = "idle"
  /\ UNCHANGED <<storage, listing, todo, repeated>>

Next ==
  \/ PollBegins \/ RemoveMissing \/ PollEnds
  \/ \E t \in Thread :
       UpsertExisting(t) \/ UpsertFree(t) \/ UpsertReplacing(t) \/ UpsertDropped(t)

Spec == Init /\ [][Next]_storeVars

-----------------------------------------------------------------------------
(* Properties *)

\* A slot shows one session: no interleaving of polls, replacements and
\* removals puts two items in one of the watch's rows.
SlotsDistinct ==
  \A t, u \in Stored : storage[t].slot = storage[u].slot => t = u

\* A new item is compared with items the same poll has yet to refresh, so one
\* poll need not leave the most useful sessions in the store.  A second poll
\* that lists the same does: the store agrees with the provider, and no thread
\* it leaves out outranks one it keeps.
MostUsefulOnceRepeated ==
  polling = "upsert" /\ todo = {} /\ repeated =>
    /\ Stored \subseteq DOMAIN listing
    /\ \A u \in Stored : /\ storage[u].state = listing[u].state
                         /\ storage[u].updatedAt = listing[u].updatedAt
    /\ \A t \in DOMAIN listing \ Stored :
         /\ Cardinality(Stored) = Capacity
         /\ \A u \in Stored : ~Outranks(listing[t], listing[u])
=============================================================================
