------------------------ MODULE WorkItemFocusProofs -------------------------
(***************************************************************************)
(* Proofs about WorkItemStore: for any capacity, any set of threads and    *)
(* any provider times, a slot shows one session, and a listing polled      *)
(* twice leaves the most useful sessions.  And about WorkItemFocus:        *)
(* however polls, focus commands and renames interleave, a session is      *)
(* shown as seen only for the provider update it was acknowledged at.      *)
(***************************************************************************)
EXTENDS WorkItemFocus, FiniteSetTheorems, TLAPS

-----------------------------------------------------------------------------
(* The store *)

\* What the two properties need of each other: an upsert takes threads of the
\* listing only, so the item it stores is well typed.
Inv == TypeOK /\ todo \subseteq DOMAIN listing /\ SlotsDistinct

\* A new item is well typed if its slot and its snapshot are.
LEMMA NewItemType ==
  ASSUME NEW s \in Slots, NEW x \in Snapshot
  PROVE  NewItem(s, x) \in Item /\ NewItem(s, x).slot = s
BY DEF NewItem, Item, Snapshot

\* Refreshing an item leaves it well typed and in its slot.
LEMMA RefreshedType ==
  ASSUME NEW i \in Item, NEW x \in Snapshot
  PROVE  Refreshed(i, x) \in Item /\ Refreshed(i, x).slot = i.slot
BY DEF Refreshed, Item, Snapshot

\* Storing an item in place of the items of Gone keeps the slots distinct, if
\* no item that stays has the slot of the new one.
LEMMA WithKeeps ==
  ASSUME TypeOK, SlotsDistinct, NEW t \in Thread, NEW x \in Item, NEW Gone,
         \A v \in Stored \ Gone : storage[v].slot = x.slot => v = t,
         storage' = With(t, x, Gone)
  PROVE  /\ Stored' \subseteq Thread
         /\ storage' \in [Stored' -> Item]
         /\ SlotsDistinct'
<1>1. Stored' = (Stored \ Gone) \cup {t}
  BY DEF With, Stored
<1>2. \A v \in Stored' : storage'[v] = IF v = t THEN x ELSE storage[v]
  BY <1>1 DEF With, Stored
<1>3. \A v \in Stored : storage[v] \in Item
  BY DEF TypeOK, Stored
<1>4. Stored' \subseteq Thread
  BY <1>1 DEF TypeOK
<1>5. storage' \in [Stored' -> Item]
  <2>1. storage' = [v \in Stored' |-> storage'[v]]
    BY <1>1 DEF With, Stored
  <2>2. \A v \in Stored' : storage'[v] \in Item
    BY <1>1, <1>2, <1>3
  <2> QED BY <2>1, <2>2
<1>6. SlotsDistinct'
  BY <1>1, <1>2 DEF SlotsDistinct
<1> QED BY <1>4, <1>5, <1>6

\* The empty store is well typed and has no slot in use.
THEOREM InitInv == Init => Inv
BY DEF Init, Inv, TypeOK, SlotsDistinct, Stored, Empty

\* Every call of the store, and every other step of the poll, keeps the
\* invariant.
THEOREM NextInv == Inv /\ [Next]_storeVars => Inv'
<1> SUFFICES ASSUME Inv, [Next]_storeVars PROVE Inv'
  OBVIOUS
<1> USE DEF Inv
<1>1. CASE PollBegins
  BY <1>1 DEF PollBegins, TypeOK, SlotsDistinct, Stored
<1>2. CASE RemoveMissing
  <2>1. Stored' = Stored \cap DOMAIN listing
    BY <1>2 DEF RemoveMissing, Stored
  <2>2. \A v \in Stored' : storage'[v] = storage[v]
    BY <1>2, <2>1 DEF RemoveMissing
  <2>3. storage' \in [Stored' -> Item]
    BY <1>2, <2>1 DEF RemoveMissing, TypeOK, Stored
  <2> QED BY <1>2, <2>1, <2>2, <2>3 DEF RemoveMissing, TypeOK, SlotsDistinct
<1>3. CASE PollEnds
  BY <1>3 DEF PollEnds, TypeOK, SlotsDistinct, Stored
<1>4. ASSUME NEW t \in Thread, Take(t),
             /\ Stored' \subseteq Thread
             /\ storage' \in [Stored' -> Item]
             /\ SlotsDistinct'
      PROVE  Inv'
  BY <1>4 DEF Take, TypeOK
<1>5. ASSUME NEW t \in Thread, Take(t)
      PROVE  listing[t] \in Snapshot
  BY <1>5 DEF Take, TypeOK
<1>6. ASSUME NEW t \in Thread, UpsertExisting(t) PROVE Inv'
  <2>1. /\ Take(t) /\ t \in Stored
        /\ storage' = [storage EXCEPT ![t] = Refreshed(@, listing[t])]
    BY <1>6 DEF UpsertExisting
  <2>2. /\ Refreshed(storage[t], listing[t]) \in Item
        /\ Refreshed(storage[t], listing[t]).slot = storage[t].slot
    BY <1>5, <2>1, RefreshedType DEF TypeOK
  <2>3. Stored' = Stored /\ storage' \in [Stored' -> Item]
    BY <2>1, <2>2 DEF TypeOK, Stored
  <2>4. \A v \in Stored : storage'[v].slot = storage[v].slot
    BY <2>1, <2>2 DEF Stored
  <2> QED BY <1>4, <2>1, <2>3, <2>4 DEF TypeOK, SlotsDistinct
<1>7. ASSUME NEW t \in Thread, UpsertFree(t) PROVE Inv'
  <2>1. Take(t)
    BY <1>7 DEF UpsertFree
  <2>2. PICK s \in FreeSlots : storage' = With(t, NewItem(s, listing[t]), {})
    BY <1>7 DEF UpsertFree
  <2>3. s \in Slots /\ s \notin UsedSlots
    BY DEF FreeSlots
  <2>4. /\ NewItem(s, listing[t]) \in Item
        /\ NewItem(s, listing[t]).slot = s
    BY <1>5, <2>1, <2>3, NewItemType
  <2>5. \A v \in Stored : storage[v].slot # s
    BY <2>3 DEF UsedSlots
  <2>6. /\ Stored' \subseteq Thread
        /\ storage' \in [Stored' -> Item]
        /\ SlotsDistinct'
    BY <2>2, <2>4, <2>5, WithKeeps
  <2> QED BY <1>4, <2>1, <2>6
<1>8. ASSUME NEW t \in Thread, UpsertReplacing(t) PROVE Inv'
  <2>1. Take(t)
    BY <1>8 DEF UpsertReplacing
  <2>2. PICK u \in Lowest :
          storage' = With(t, NewItem(storage[u].slot, listing[t]), {u})
    BY <1>8 DEF UpsertReplacing
  <2>3. u \in Stored /\ storage[u].slot \in Slots
    BY DEF Lowest, TypeOK, Item
  <2>4. /\ NewItem(storage[u].slot, listing[t]) \in Item
        /\ NewItem(storage[u].slot, listing[t]).slot = storage[u].slot
    BY <1>5, <2>1, <2>3, NewItemType
  <2>5. \A v \in Stored \ {u} : storage[v].slot # storage[u].slot
    BY <2>3 DEF SlotsDistinct
  <2>6. \A v \in Stored \ {u} :
          storage[v].slot = NewItem(storage[u].slot, listing[t]).slot => v = t
    BY <2>4, <2>5
  <2>7. /\ Stored' \subseteq Thread
        /\ storage' \in [Stored' -> Item]
        /\ SlotsDistinct'
    BY <2>2, <2>4, <2>6, WithKeeps
  <2> QED BY <1>4, <2>1, <2>7
<1>9. ASSUME NEW t \in Thread, UpsertDropped(t) PROVE Inv'
  BY <1>4, <1>9 DEF UpsertDropped, TypeOK, SlotsDistinct, Stored
<1>10. CASE UNCHANGED storeVars
  BY <1>10 DEF storeVars, TypeOK, SlotsDistinct, Stored
<1> QED BY <1>1, <1>2, <1>3, <1>6, <1>7, <1>8, <1>9, <1>10 DEF Next

\* Every item, listing and poll step of a behaviour is one the types allow.
THEOREM StoreTypeCorrect == Spec => []TypeOK
BY InitInv, NextInv, PTL DEF Spec, Inv

\* No interleaving of polls, replacements and removals puts two sessions in one
\* row of the watch.
THEOREM SlotsStayDistinct == Spec => []SlotsDistinct
BY InitInv, NextInv, PTL DEF Spec, Inv

-----------------------------------------------------------------------------
(* The store with focus *)

\* The strengthening: the store is never ahead of the listing, and once the poll
\* has removed what the listing lacks, the store holds listed threads only.  An
\* upsert that keeps seen therefore keeps the update it was set at.
Listed ==
  /\ \A t \in Stored \cap DOMAIN listing :
       storage[t].updatedAt <= listing[t].updatedAt
  /\ polling # "remove" => Stored \subseteq DOMAIN listing

FocusInv == Inv /\ FocusTypeOK /\ Listed /\ SeenIsCurrent

\* A store in which nothing was ever listed satisfies the invariant.
THEOREM FocusInitInv == FocusInit => FocusInv
<1> SUFFICES ASSUME FocusInit PROVE FocusInv
  OBVIOUS
<1>1. Inv
  BY InitInv DEF FocusInit
<1>2. Stored = {}
  BY DEF FocusInit, Init, Stored, Empty
<1>3. FocusTypeOK
  BY <1>1 DEF FocusInit, FocusTypeOK, Inv
<1> QED BY <1>1, <1>2, <1>3 DEF FocusInv, Listed, SeenIsCurrent

\* An item that is seen after a step of the poll has its acknowledgement of before.
AckedKept == \A t \in Stored' : storage'[t].seen => acked'[t] = acked[t]

\* The listing of a new poll is not behind the store, for its times are not
\* behind those of the listing before.
LEMMA PollBeginsKeeps ==
  ASSUME FocusInv, PollBegins, AckedKept
  PROVE  Listed' /\ SeenIsCurrent'
<1>1. Stored' = Stored /\ storage' = storage
  BY DEF PollBegins, Stored
<1>2. ASSUME NEW t \in Stored \cap DOMAIN listing'
      PROVE  storage[t].updatedAt <= listing'[t].updatedAt
  <2>1. t \in DOMAIN listing
    BY DEF PollBegins, FocusInv, Listed
  <2>2. storage[t].updatedAt <= listing[t].updatedAt
    BY <2>1 DEF FocusInv, Listed
  <2>3. listing[t].updatedAt <= listing'[t].updatedAt
    BY <2>1 DEF PollBegins
  <2>4. storage[t].updatedAt \in Int /\ listing[t].updatedAt \in Int
    BY <2>1 DEF FocusInv, Inv, TypeOK, Item, Snapshot, Time
  <2>5. listing' \in [DOMAIN listing' -> Snapshot]
    BY DEF PollBegins
  <2>6. listing'[t].updatedAt \in Int
    BY <2>5 DEF Snapshot, Time
  <2> QED BY <2>2, <2>3, <2>4, <2>6
<1>3. polling' = "remove"
  BY DEF PollBegins
<1> QED BY <1>1, <1>2, <1>3 DEF FocusInv, Listed, SeenIsCurrent, AckedKept,
   Update

\* An item the poll stores at t, if it is not ahead of the listing and is seen
\* only at the acknowledged update, keeps the invariant.
LEMMA StoredKeeps ==
  ASSUME FocusInv, AckedKept, NEW t \in Thread, Take(t), t \in Stored',
         Stored' \subseteq Stored \cup {t},
         \A v \in Stored' \ {t} : storage'[v] = storage[v],
         storage'[t].updatedAt <= listing[t].updatedAt,
         storage'[t].seen => acked[t] = Update(storage'[t])
  PROVE  Listed' /\ SeenIsCurrent'
<1>1. listing' = listing /\ t \in DOMAIN listing /\ polling = "upsert" /\ polling' = polling
  BY DEF Take, FocusInv, Inv
<1> QED BY <1>1 DEF FocusInv, Listed, SeenIsCurrent, AckedKept, Update

\* Every call of the poll keeps the two parts of the invariant the store's own
\* does not imply.
LEMMA PollKeeps ==
  ASSUME FocusInv, Next, AckedKept
  PROVE  Listed' /\ SeenIsCurrent'
<1>1. CASE PollBegins
  BY <1>1, PollBeginsKeeps
<1>2. CASE RemoveMissing
  <2>1. Stored' = Stored \cap DOMAIN listing
    BY <1>2 DEF RemoveMissing, Stored
  <2>2. \A v \in Stored' : storage'[v] = storage[v]
    BY <1>2, <2>1 DEF RemoveMissing
  <2> QED BY <1>2, <2>1, <2>2
      DEF RemoveMissing, FocusInv, Listed, SeenIsCurrent, AckedKept, Update
<1>3. CASE PollEnds
  BY <1>3 DEF PollEnds, FocusInv, Listed, SeenIsCurrent, AckedKept, Update,
     Stored
<1>4. ASSUME NEW t \in Thread, Take(t)
      PROVE  t \in DOMAIN listing /\ listing[t] \in Snapshot
  BY <1>4 DEF Take, FocusInv, Inv, TypeOK
<1>5. ASSUME NEW s \in Slots, NEW x \in Snapshot
      PROVE  NewItem(s, x).updatedAt <= x.updatedAt /\ ~NewItem(s, x).seen
  BY DEF NewItem, Snapshot, Time
<1>6. ASSUME NEW t \in Thread, UpsertExisting(t)
      PROVE  Listed' /\ SeenIsCurrent'
  <2> DEFINE i == storage[t]
             x == listing[t]
  <2>1. /\ Take(t) /\ t \in Stored
        /\ storage' = [storage EXCEPT ![t] = Refreshed(@, x)]
    BY <1>6 DEF UpsertExisting
  <2>2. Stored' = Stored /\ storage'[t] = Refreshed(i, x)
    BY <2>1 DEF Stored
  <2>3. \A v \in Stored' \ {t} : storage'[v] = storage[v]
    BY <2>1, <2>2 DEF Stored
  <2>4. i \in Item /\ x \in Snapshot /\ i.updatedAt <= x.updatedAt
    BY <1>4, <2>1 DEF FocusInv, Inv, TypeOK, Listed
  <2>5. Refreshed(i, x).updatedAt <= x.updatedAt
    BY <2>4 DEF Refreshed, Item, Snapshot, Time
  <2>6. ASSUME Refreshed(i, x).seen
        PROVE  Update(Refreshed(i, x)) = Update(i) /\ i.seen
    <3>1. i.seen /\ x.state = i.state /\ x.updatedAt <= i.updatedAt
      BY <2>4, <2>6 DEF Refreshed, Item
    <3>2. x.updatedAt = i.updatedAt
      BY <2>4, <3>1 DEF Item, Snapshot, Time
    <3> QED BY <2>4, <3>1, <3>2 DEF Refreshed, Update, Item
  <2>7. i.seen => acked[t] = Update(i)
    BY <2>1 DEF FocusInv, SeenIsCurrent
  <2>8. storage'[t].seen => acked[t] = Update(storage'[t])
    BY <2>2, <2>6, <2>7
  <2> QED BY <2>1, <2>2, <2>3, <2>5, <2>8, StoredKeeps
<1>7. ASSUME NEW t \in Thread, NEW s \in Slots, NEW Gone, Take(t),
             storage' = With(t, NewItem(s, listing[t]), Gone)
      PROVE  Listed' /\ SeenIsCurrent'
  <2>1. Stored' = (Stored \ Gone) \cup {t}
    BY <1>7 DEF With, Stored
  <2>2. \A v \in Stored' \ {t} : storage'[v] = storage[v]
    BY <1>7, <2>1 DEF With, Stored
  <2>3. storage'[t] = NewItem(s, listing[t])
    BY <1>7, <2>1 DEF With, Stored
  <2>4. storage'[t].updatedAt <= listing[t].updatedAt /\ ~storage'[t].seen
    BY <1>4, <1>5, <1>7, <2>3
  <2> QED BY <1>7, <2>1, <2>2, <2>4, StoredKeeps
<1>8. ASSUME NEW t \in Thread, UpsertFree(t)
      PROVE  Listed' /\ SeenIsCurrent'
  BY <1>7, <1>8 DEF UpsertFree, FreeSlots
<1>9. ASSUME NEW t \in Thread, UpsertReplacing(t)
      PROVE  Listed' /\ SeenIsCurrent'
  <2>1. PICK u \in Lowest :
          storage' = With(t, NewItem(storage[u].slot, listing[t]), {u})
    BY <1>9 DEF UpsertReplacing
  <2>2. storage[u].slot \in Slots
    BY DEF Lowest, FocusInv, Inv, TypeOK, Item
  <2> QED BY <1>7, <1>9, <2>1, <2>2 DEF UpsertReplacing
<1>10. ASSUME NEW t \in Thread, UpsertDropped(t)
       PROVE  Listed' /\ SeenIsCurrent'
  BY <1>10 DEF UpsertDropped, Take, FocusInv, Listed, SeenIsCurrent, AckedKept,
     Update, Stored
<1> QED BY <1>1, <1>2, <1>3, <1>6, <1>8, <1>9, <1>10 DEF Next

\* A change of one item that leaves its slot, state and time alone keeps the
\* store's invariant, and the store behind the listing.
LEMMA MarkKeeps ==
  ASSUME FocusInv, NEW t \in Stored, NEW i \in Item,
         i.slot = storage[t].slot, Update(i) = Update(storage[t]),
         storage' = [storage EXCEPT ![t] = i],
         UNCHANGED <<listing, todo, polling, repeated>>
  PROVE  Inv' /\ Listed'
<1>1. Stored' = Stored /\ storage'[t] = i
      /\ \A v \in Stored \ {t} : storage'[v] = storage[v]
  BY DEF Stored
<1>2. i.updatedAt = storage[t].updatedAt
  BY DEF Update
<1>3. storage' \in [Stored -> Item]
  BY DEF FocusInv, Inv, TypeOK
<1>4. TypeOK'
  BY <1>1, <1>3 DEF FocusInv, Inv, TypeOK
<1>5. SlotsDistinct'
  BY <1>1 DEF FocusInv, Inv, SlotsDistinct
<1>6. Listed'
  BY <1>1, <1>2 DEF FocusInv, Listed
<1> QED BY <1>4, <1>5, <1>6 DEF FocusInv, Inv

\* Every step of the poll, of a focus command and of a rename keeps the
\* invariant.
THEOREM FocusNextInv == FocusInv /\ [FocusNext]_vars => FocusInv'
<1> SUFFICES ASSUME FocusInv, [FocusNext]_vars PROVE FocusInv'
  OBVIOUS
<1>1. CASE PollStep
  <2>1. Next /\ focus' = focus
    BY <1>1 DEF PollStep
  <2>3. acked' \in [Thread -> Snapshot \cup {NoUpdate}]
    BY <1>1 DEF PollStep, FocusInv, FocusTypeOK
  <2>2. Inv'
    BY <2>1, NextInv DEF FocusInv
  <2>5. FocusTypeOK'
    BY <2>1, <2>2, <2>3 DEF FocusInv, FocusTypeOK, Inv
  <2>4. Stored' \subseteq Thread
    BY <2>2 DEF Inv, TypeOK
  <2>7. AckedKept
    BY <1>1, <2>4 DEF PollStep, AckedKept, Stored
  <2>6. Listed' /\ SeenIsCurrent'
    BY <2>1, <2>7, PollKeeps
  <2> QED BY <2>2, <2>5, <2>6 DEF FocusInv
<1>2. ASSUME UNCHANGED <<storeVars, acked>>,
             focus' \in [step : {"opening", "opened"}, slot : Slots] \cup {NoFocus}
      PROVE  FocusInv'
  BY <1>2 DEF storeVars, FocusInv, Inv, TypeOK, SlotsDistinct, FocusTypeOK,
              Listed, SeenIsCurrent, Update, Stored
<1>3. ASSUME NEW t \in Thread, FocusLookup(t) PROVE FocusInv'
  <2>1. storage[t] \in Item
    BY <1>3 DEF FocusLookup, FocusInv, Inv, TypeOK
  <2> QED BY <1>2, <1>3, <2>1 DEF FocusLookup, Item
<1>4. CASE FocusOpened
  BY <1>2, <1>4 DEF FocusOpened, FocusInv, FocusTypeOK, NoFocus
<1>5. CASE FocusFailed
  BY <1>2, <1>5 DEF FocusFailed
<1>6. CASE Acknowledge
  <2>1. /\ focus' = NoFocus
        /\ UNCHANGED <<listing, todo, polling, repeated>>
    BY <1>6 DEF Acknowledge
  <2>2. CASE UNCHANGED <<storage, acked>>
    BY <1>2, <2>1, <2>2 DEF storeVars
  <2>3. ASSUME NEW t \in Stored,
               storage' = [storage EXCEPT ![t].seen = TRUE],
               acked' = [acked EXCEPT ![t] = Update(storage[t])]
        PROVE  FocusInv'
    <3> DEFINE i == [storage[t] EXCEPT !.seen = TRUE]
    <3>1. t \in Thread /\ storage[t] \in Item
      BY DEF FocusInv, Inv, TypeOK
    <3>2. i \in Item /\ i.slot = storage[t].slot /\ Update(i) = Update(storage[t])
      BY <3>1 DEF Item, Update
    <3>3. storage' = [storage EXCEPT ![t] = i]
      BY <2>3
    <3>4. Inv' /\ Listed'
      BY <2>1, <3>2, <3>3, MarkKeeps
    <3>5. Stored' = Stored /\ storage'[t] = i
          /\ \A v \in Stored \ {t} : storage'[v] = storage[v]
      BY <3>3 DEF Stored
    <3>6. Update(storage[t]) \in Snapshot
      BY <3>1 DEF Update, Item, Snapshot
    <3>7. acked' \in [Thread -> Snapshot \cup {NoUpdate}]
      BY <2>3, <3>1, <3>6 DEF FocusInv, FocusTypeOK
    <3>8. FocusTypeOK'
      BY <2>1, <3>4, <3>7 DEF FocusInv, FocusTypeOK, Inv
    <3>9. acked'[t] = Update(storage[t])
          /\ \A v \in Thread \ {t} : acked'[v] = acked[v]
      BY <2>3, <3>1 DEF FocusInv, FocusTypeOK
    <3>10. \A v \in Stored' : storage'[v].seen => acked'[v] = Update(storage'[v])
      BY <3>2, <3>5, <3>9 DEF FocusInv, SeenIsCurrent, Inv, TypeOK
    <3>11. SeenIsCurrent'
      BY <3>10 DEF SeenIsCurrent, Update
    <3> QED BY <3>4, <3>8, <3>11 DEF FocusInv
  <2> QED BY <1>6, <2>2, <2>3 DEF Acknowledge
<1>7. ASSUME NEW t \in Thread, Rename(t) PROVE FocusInv'
  <2> DEFINE i == [storage[t] EXCEPT !.custom = TRUE]
  <2>1. /\ t \in Stored /\ storage[t] \in Item
        /\ storage' = [storage EXCEPT ![t] = i]
        /\ UNCHANGED <<listing, todo, polling, repeated, focus, acked>>
    BY <1>7 DEF Rename, FocusInv, Inv, TypeOK
  <2>2. /\ i \in Item /\ i.slot = storage[t].slot /\ i.seen = storage[t].seen
        /\ Update(i) = Update(storage[t])
    BY <2>1 DEF Item, Update
  <2>3. Inv' /\ Listed'
    BY <2>1, <2>2, MarkKeeps
  <2>4. FocusTypeOK'
    BY <2>1, <2>3 DEF FocusInv, FocusTypeOK, Inv
  <2>5. \A v \in Stored' : storage'[v].seen => acked'[v] = Update(storage'[v])
    BY <2>1, <2>2 DEF FocusInv, SeenIsCurrent, Stored
  <2>6. SeenIsCurrent'
    BY <2>5 DEF SeenIsCurrent, Update
  <2> QED BY <2>3, <2>4, <2>6 DEF FocusInv
<1>8. CASE UNCHANGED vars
  BY <1>8 DEF vars, storeVars, FocusInv, Inv, TypeOK, SlotsDistinct,
     FocusTypeOK,
              Listed, SeenIsCurrent, Update, Stored
<1> QED BY <1>1, <1>3, <1>4, <1>5, <1>6, <1>7, <1>8 DEF FocusNext

\* A session is shown as seen only for the provider update it was acknowledged
\* at, whatever is polled, focused and renamed meanwhile.
THEOREM SeenStaysCurrent == FocusSpec => []SeenIsCurrent
BY FocusInitInv, FocusNextInv, PTL DEF FocusSpec, FocusInv

-----------------------------------------------------------------------------
(* The ranking *)

\* A stored item is what the listing says of its thread.
Agrees(u) ==
  /\ u \in DOMAIN listing
  /\ storage[u].state = listing[u].state /\ storage[u].updatedAt = listing[u].updatedAt

\* What a poll that repeats the one before has done so far: the items agree with
\* the listing from its start, and of the threads taken those left out are
\* outranked by none of a full store's items.
RankInv ==
  /\ IsFiniteSet(Stored) /\ Cardinality(Stored) <= Capacity
  /\ polling = "idle" => todo = {}
  /\ polling = "remove" => todo = DOMAIN listing
  /\ polling # "remove" => \A u \in Stored \ todo : Agrees(u)
  /\ polling # "remove" => Stored \subseteq DOMAIN listing
  /\ repeated => \A u \in Stored : Agrees(u)
  /\ repeated /\ polling = "upsert" =>
       \A t \in DOMAIN listing \ (todo \cup Stored) :
         /\ Cardinality(Stored) = Capacity
         /\ \A u \in Stored : ~Outranks(listing[t], listing[u])

\* Outranks orders by state, then by time: it is asymmetric and transitive, and
\* of two items one of which outranks the other, a third outranks the one or is
\* outranked by the other.
LEMMA Ranking ==
  ASSUME NEW a, NEW b, NEW c,
         {a.state, b.state, c.state} \subseteq WorkItemStates,
         {a.updatedAt, b.updatedAt, c.updatedAt} \subseteq Int
  PROVE  /\ Outranks(a, b) => ~Outranks(b, a)
         /\ Outranks(a, b) /\ Outranks(b, c) => Outranks(a, c)
         /\ Outranks(a, c) => Outranks(a, b) \/ Outranks(b, c)
<1>1. \A s \in WorkItemStates : Priority(s) \in 0 .. 4
  BY DEF WorkItemStates, Priority
<1>2. PICK p \in Int, q \in Int, r \in Int :
         p = Priority(a.state) /\ q = Priority(b.state) /\ r = Priority(c.state)
  BY <1>1
<1> QED BY <1>2 DEF Outranks

\* Only the state and the time count.
LEMMA SameRank ==
  ASSUME NEW a, NEW b, NEW c, a.state = b.state, a.updatedAt = b.updatedAt
  PROVE  (Outranks(a, c) <=> Outranks(b, c)) /\ (Outranks(c, a) <=> Outranks(c, b))
BY DEF Outranks

\* What is stored and what is listed has a rank.
LEMMA RankTypes ==
  ASSUME TypeOK
  PROVE  /\ \A u \in Stored :
              storage[u].state \in WorkItemStates /\ storage[u].updatedAt \in Int
         /\ \A u \in DOMAIN listing :
              listing[u].state \in WorkItemStates /\ listing[u].updatedAt \in Int
<1>1. \A u \in Stored : storage[u] \in Item
  BY DEF TypeOK
<1>2. \A u \in DOMAIN listing : listing[u] \in Snapshot
  BY DEF TypeOK
<1> QED BY <1>1, <1>2, StoreAssumption DEF Item, Snapshot, Time

\* An upsert of t leaves the store's other items as they are.
LEMMA UpsertSteps ==
  ASSUME Inv, NEW t \in Thread,
         UpsertExisting(t) \/ UpsertFree(t) \/ UpsertReplacing(t)
  PROVE  /\ t \in Stored' /\ Agrees(t)'
         /\ t \in DOMAIN listing
         /\ \A u \in Stored' \ {t} : u \in Stored /\ storage'[u] = storage[u]
<1>0. Take(t) /\ t \in DOMAIN listing /\ listing' = listing
  BY DEF UpsertExisting, UpsertFree, UpsertReplacing, Take, Inv
<1>1. CASE UpsertExisting(t)
  <2>1. Stored' = Stored /\ t \in Stored /\ storage'[t] = Refreshed(storage[t], listing[t])
        /\ \A u \in Stored \ {t} : storage'[u] = storage[u]
    BY <1>1 DEF UpsertExisting, Stored
  <2>2. storage[t] \in Item
    BY <2>1 DEF Inv, TypeOK
  <2>3. /\ storage'[t].state = listing[t].state
        /\ storage'[t].updatedAt = listing[t].updatedAt
    BY <2>1, <2>2 DEF Refreshed, Item
  <2> QED BY <1>0, <2>1, <2>3 DEF Agrees
<1>2. ASSUME NEW s, NEW Gone, storage' = With(t, NewItem(s, listing[t]), Gone)
      PROVE  /\ t \in Stored' /\ Agrees(t)'
             /\ \A u \in Stored' \ {t} : u \in Stored /\ storage'[u] = storage[u]
  <2>1. Stored' = (Stored \ Gone) \cup {t}
    BY <1>2 DEF With, Stored
  <2>2. \A u \in Stored' : storage'[u] = IF u = t THEN NewItem(s, listing[t]) ELSE storage[u]
    BY <1>2, <2>1 DEF With, Stored
  <2>3. storage'[t] = NewItem(s, listing[t])
    BY <2>1, <2>2
  <2>4. Agrees(t)'
    BY <1>0, <2>3 DEF Agrees, NewItem
  <2> QED BY <2>1, <2>2, <2>4
<1> QED BY <1>0, <1>1, <1>2 DEF UpsertFree, UpsertReplacing

\* The threads an upsert takes are stored, replace another or are left out.
LEMMA StoredSteps ==
  ASSUME Inv, RankInv, NEW t \in Thread
  PROVE  /\ UpsertExisting(t) => Stored' = Stored
         /\ UpsertFree(t) =>
              /\ Stored' = Stored \cup {t} /\ IsFiniteSet(Stored')
              /\ Cardinality(Stored') <= Capacity /\ Cardinality(Stored) < Capacity
         /\ UpsertReplacing(t) =>
              /\ \E u \in Lowest : /\ Stored' = (Stored \ {u}) \cup {t}
                                   /\ Outranks(listing[t], storage[u])
              /\ t \notin Stored /\ IsFiniteSet(Stored')
              /\ Cardinality(Stored) = Capacity /\ Cardinality(Stored') = Capacity
         /\ UpsertDropped(t) => UNCHANGED storage /\ Cardinality(Stored) = Capacity
<1>0. /\ IsFiniteSet(Stored) /\ Cardinality(Stored) \in Nat /\ Cardinality(Stored) <= Capacity
      /\ Capacity \in Nat
  BY FS_CardinalityType, StoreAssumption DEF RankInv
<1>1. UpsertExisting(t) => Stored' = Stored
  BY DEF UpsertExisting, Stored
<1>2. ASSUME UpsertFree(t)
      PROVE  /\ Stored' = Stored \cup {t} /\ IsFiniteSet(Stored')
             /\ Cardinality(Stored') <= Capacity /\ Cardinality(Stored) < Capacity
  <2>1. Stored' = Stored \cup {t} /\ t \notin Stored /\ Cardinality(Stored) < Capacity
    BY <1>2 DEF UpsertFree, With, Stored
  <2> QED BY <1>0, <2>1, FS_AddElement
<1>3. ASSUME UpsertReplacing(t)
      PROVE  /\ \E u \in Lowest : /\ Stored' = (Stored \ {u}) \cup {t}
                                  /\ Outranks(listing[t], storage[u])
             /\ t \notin Stored /\ IsFiniteSet(Stored')
             /\ Cardinality(Stored) = Capacity /\ Cardinality(Stored') = Capacity
  <2>1. PICK u \in Lowest :
           /\ Outranks(listing[t], storage[u])
           /\ storage' = With(t, NewItem(storage[u].slot, listing[t]), {u})
    BY <1>3 DEF UpsertReplacing
  <2>2. Stored' = (Stored \ {u}) \cup {t} /\ u \in Stored
    BY <2>1 DEF With, Stored, Lowest
  <2>3. t \notin Stored /\ Cardinality(Stored) = Capacity
    BY <1>0, <1>3 DEF UpsertReplacing
  <2>4. IsFiniteSet(Stored \ {u}) /\ Cardinality(Stored \ {u}) = Capacity - 1
    BY <1>0, <2>2, <2>3, FS_RemoveElement
  <2>5. IsFiniteSet((Stored \ {u}) \cup {t})
        /\ Cardinality((Stored \ {u}) \cup {t}) = Capacity - 1 + 1
    BY <2>3, <2>4, FS_AddElement
  <2> QED BY <1>0, <2>1, <2>2, <2>3, <2>5
<1>4. UpsertDropped(t) => UNCHANGED storage /\ Cardinality(Stored) = Capacity
  BY <1>0 DEF UpsertDropped
<1> QED BY <1>1, <1>2, <1>3, <1>4

\* The upserts of a repeated poll leave nothing out that outranks what is stored:
\* what is replaced ranks lowest, and what is left out does not outrank the lowest.
LEMMA UpsertRanks ==
  ASSUME Inv, RankInv, repeated, polling = "upsert", NEW t \in Thread,
         UpsertExisting(t) \/ UpsertFree(t) \/ UpsertReplacing(t) \/ UpsertDropped(t),
         NEW w \in DOMAIN listing \ (todo' \cup Stored')
  PROVE  /\ Cardinality(Stored') = Capacity
         /\ \A v \in Stored' : ~Outranks(listing[w], listing[v])
<1>0. /\ t \in DOMAIN listing /\ todo' = todo \ {t} /\ Stored \subseteq DOMAIN listing
      /\ \A u \in Stored : Agrees(u)
  BY DEF UpsertExisting, UpsertFree, UpsertReplacing, UpsertDropped, Take, Inv,
     RankInv
<1>1. \A u \in DOMAIN listing :
        listing[u].state \in WorkItemStates /\ listing[u].updatedAt \in Int
  BY RankTypes DEF Inv
<1>2. \A a, b \in DOMAIN listing : Outranks(listing[a], listing[b]) => ~Outranks(listing[b], listing[a])
  BY <1>1, Ranking
<1>3. \A a, b, c \in DOMAIN listing :
        Outranks(listing[a], listing[b]) /\ Outranks(listing[b], listing[c])
          => Outranks(listing[a], listing[c])
  BY <1>1, Ranking
<1>4. \A a, b, c \in DOMAIN listing :
        Outranks(listing[a], listing[c])
          => Outranks(listing[a], listing[b]) \/ Outranks(listing[b], listing[c])
  BY <1>1, Ranking
<1>5. \A u \in Lowest : u \in Stored /\ \A v \in Stored : ~Outranks(listing[u], listing[v])
  BY <1>0, SameRank DEF Lowest, Agrees
<1>6. \A a \in DOMAIN listing, u \in Stored :
        Outranks(listing[a], storage[u]) <=> Outranks(listing[a], listing[u])
  BY <1>0, SameRank DEF Agrees
<1>7. w \notin todo /\ w \notin Stored =>
        Cardinality(Stored) = Capacity /\ \A v \in Stored : ~Outranks(listing[w], listing[v])
  BY DEF RankInv
<1>8. CASE UpsertExisting(t)
  <2>1. Stored' = Stored /\ t \in Stored
    BY <1>8, StoredSteps DEF UpsertExisting
  <2> QED BY <1>0, <1>7, <2>1
<1>9. CASE UpsertFree(t)
  <2>1. Stored' = Stored \cup {t} /\ Cardinality(Stored) < Capacity /\ Capacity \in Nat
        /\ Cardinality(Stored) \in Nat
    BY <1>9, StoredSteps, StoreAssumption, FS_CardinalityType DEF RankInv
  <2> QED BY <1>0, <1>7, <2>1
<1>10. CASE UpsertReplacing(t)
  <2>1. PICK u \in Lowest : /\ Stored' = (Stored \ {u}) \cup {t}
                            /\ Outranks(listing[t], listing[u]) /\ u \in Stored
    BY <1>0, <1>5, <1>6, <1>10, StoredSteps
  <2>2. Cardinality(Stored') = Capacity
    BY <1>10, StoredSteps
  <2>3. CASE w = u
    BY <1>0, <1>2, <1>5, <2>1, <2>2, <2>3
  <2>4. CASE w # u
    <3>1. w \notin todo /\ w \notin Stored
      BY <1>0, <2>1, <2>4
    <3>2. ~Outranks(listing[w], listing[t])
      BY <1>0, <1>3, <1>7, <2>1, <3>1
    <3> QED BY <1>7, <2>1, <2>2, <3>1, <3>2
  <2> QED BY <2>3, <2>4
<1>11. CASE UpsertDropped(t)
  <2>1. Stored' = Stored /\ Cardinality(Stored) = Capacity
    BY <1>11, StoredSteps DEF Stored
  <2>2. CASE w = t
    <3>1. PICK u \in Lowest : ~Outranks(listing[t], listing[u]) /\ u \in Stored
      BY <1>0, <1>5, <1>6, <1>11 DEF UpsertDropped
    <3>2. \A v \in Stored : ~Outranks(listing[t], listing[v])
      BY <1>0, <1>4, <1>5, <3>1
    <3> QED BY <2>1, <2>2, <3>2
  <2>3. CASE w # t
    BY <1>0, <1>7, <2>1, <2>3
  <2> QED BY <2>2, <2>3
<1> QED BY <1>8, <1>9, <1>10, <1>11

\* Every call of the store, and every other step of the poll, keeps the ranking.
LEMMA RankKept == ASSUME Inv, RankInv, Next PROVE RankInv'
<1>0. Inv'
  BY NextInv
<1>1. CASE PollBegins
  <2>1. /\ storage' = storage /\ Stored' = Stored /\ polling = "idle"
        /\ polling' = "remove" /\ todo' = DOMAIN listing'
        /\ repeated' => listing' = listing
    BY <1>1 DEF PollBegins, Stored
  <2>2. repeated' => \A u \in Stored : Agrees(u) /\ Agrees(u)'
    BY <2>1 DEF RankInv, Agrees
  <2> QED BY <2>1, <2>2 DEF RankInv
<1>2. CASE RemoveMissing
  <2>1. /\ Stored' = Stored \cap DOMAIN listing
        /\ \A u \in Stored' : storage'[u] = storage[u]
        /\ polling = "remove" /\ polling' = "upsert" /\ UNCHANGED <<listing, todo, repeated>>
    BY <1>2 DEF RemoveMissing, Stored
  <2>2. IsFiniteSet(Stored') /\ Cardinality(Stored') <= Capacity
    <3>1. IsFiniteSet(Stored) /\ Stored' \subseteq Stored
      BY <2>1 DEF RankInv
    <3>2. IsFiniteSet(Stored') /\ Cardinality(Stored') <= Cardinality(Stored)
      BY <3>1, FS_Subset
    <3> QED BY <3>1, <3>2, FS_CardinalityType, StoreAssumption DEF RankInv
  <2>3. todo' = DOMAIN listing'
    BY <2>1 DEF RankInv
  <2> QED BY <2>1, <2>2, <2>3 DEF RankInv, Agrees
<1>3. CASE PollEnds
  BY <1>3 DEF PollEnds, RankInv, Agrees, Stored
<1>4. ASSUME NEW t \in Thread,
             UpsertExisting(t) \/ UpsertFree(t) \/ UpsertReplacing(t) \/ UpsertDropped(t)
      PROVE  RankInv'
  <2>1. /\ polling = "upsert" /\ todo' = todo \ {t} /\ UNCHANGED <<listing, repeated, polling>>
        /\ t \in DOMAIN listing
    BY <1>4 DEF UpsertExisting, UpsertFree, UpsertReplacing, UpsertDropped,
       Take, Inv
  <2>2. IsFiniteSet(Stored') /\ Cardinality(Stored') <= Capacity
    <3>1. CASE UpsertExisting(t) \/ UpsertDropped(t)
      <4>1. Stored' = Stored
        BY <3>1, StoredSteps DEF Stored
      <4> QED BY <4>1 DEF RankInv
    <3>2. CASE UpsertFree(t)
      BY <3>2, StoredSteps
    <3>3. CASE UpsertReplacing(t)
      <4>1. IsFiniteSet(Stored') /\ Cardinality(Stored') = Capacity
        BY <3>3, StoredSteps
      <4> QED BY <4>1, StoreAssumption
    <3> QED BY <1>4, <3>1, <3>2, <3>3
  <2>3. \A u \in Stored' : (u = t /\ Agrees(t)') \/ (u \in Stored /\ storage'[u] = storage[u])
    <3>1. CASE UpsertDropped(t)
      BY <3>1 DEF UpsertDropped, Stored
    <3>2. CASE UpsertExisting(t) \/ UpsertFree(t) \/ UpsertReplacing(t)
      <4>1. /\ Agrees(t)'
            /\ \A u \in Stored' \ {t} : u \in Stored /\ storage'[u] = storage[u]
        BY <3>2, UpsertSteps
      <4> QED BY <4>1
    <3> QED BY <1>4, <3>1, <3>2
  <2>4. UpsertDropped(t) => t \notin Stored'
    BY DEF UpsertDropped, Stored
  <2>5. \A u \in Stored' : u \in DOMAIN listing
    BY <2>1, <2>3 DEF RankInv
  <2>6. \A u \in Stored' \ todo' : Agrees(u)'
    <3>1. \A u \in Stored' \ todo' : u = t \/ u \in Stored \ todo
      BY <2>1, <2>3
    <3>2. t \in Stored' => Agrees(t)'
      BY <1>4, <2>4, UpsertSteps
    <3> QED BY <2>1, <2>3, <3>1, <3>2 DEF RankInv, Agrees
  <2>7. repeated' => \A u \in Stored' : Agrees(u)'
    BY <2>1, <2>3 DEF RankInv, Agrees
  <2>8. repeated' => \A w \in DOMAIN listing \ (todo' \cup Stored') :
          /\ Cardinality(Stored') = Capacity
          /\ \A v \in Stored' : ~Outranks(listing[w], listing[v])
    BY <1>4, <2>1, UpsertRanks
  <2> QED BY <2>1, <2>2, <2>5, <2>6, <2>7, <2>8 DEF RankInv
<1> QED BY <1>1, <1>2, <1>3, <1>4 DEF Next

\* So does a change of one item that leaves its state and its time alone.
LEMMA RankMarked ==
  ASSUME RankInv, Stored' = Stored, UNCHANGED <<listing, todo, polling, repeated>>,
         \A u \in Stored : Update(storage'[u]) = Update(storage[u])
  PROVE  RankInv'
<1>1. \A u \in Stored : /\ storage'[u].state = storage[u].state
                        /\ storage'[u].updatedAt = storage[u].updatedAt
  BY DEF Update
<1> QED BY <1>1 DEF RankInv, Agrees

\* The ranking holds at the start and is kept by every step.
LEMMA FocusRank ==
  /\ FocusInit => RankInv
  /\ FocusInv /\ RankInv /\ [FocusNext]_vars => RankInv'
<1>1. ASSUME FocusInit PROVE RankInv
  <2>1. Stored = {} /\ IsFiniteSet(Stored) /\ Cardinality(Stored) = 0
    BY <1>1, FS_EmptySet DEF FocusInit, Init, Stored, Empty
  <2> QED BY <1>1, <2>1, StoreAssumption DEF FocusInit, Init, RankInv, Empty
<1>2. ASSUME FocusInv, RankInv, [FocusNext]_vars PROVE RankInv'
  <2>1. CASE PollStep
    BY <1>2, <2>1, RankKept DEF PollStep, FocusInv
  <2>2. CASE UNCHANGED storeVars
    <3>1. Stored' = Stored /\ UNCHANGED <<storage, listing, todo, polling, repeated>>
      BY <2>2 DEF storeVars, Stored
    <3> QED BY <1>2, <3>1, RankMarked
  <2>3. ASSUME NEW t \in Stored, NEW i, Update(i) = Update(storage[t]),
               storage' = [storage EXCEPT ![t] = i],
               UNCHANGED <<listing, todo, polling, repeated>>
        PROVE  RankInv'
    <3>1. /\ Stored' = Stored /\ storage'[t] = i
          /\ \A u \in Stored \ {t} : storage'[u] = storage[u]
      BY <2>3 DEF Stored
    <3> QED BY <1>2, <2>3, <3>1, RankMarked
  <2>4. \A t \in Stored : storage[t] \in Item
    BY <1>2 DEF FocusInv, Inv, TypeOK
  <2>5. ASSUME Acknowledge, ~UNCHANGED storage PROVE RankInv'
    <3>1. PICK t \in Stored : storage' = [storage EXCEPT ![t].seen = TRUE]
      BY <2>5 DEF Acknowledge
    <3>2. Update([storage[t] EXCEPT !.seen = TRUE]) = Update(storage[t])
      BY <2>4 DEF Item, Update
    <3> QED BY <2>3, <2>5, <3>1, <3>2 DEF Acknowledge
  <2>6. ASSUME NEW t \in Thread, Rename(t) PROVE RankInv'
    <3>1. t \in Stored /\ storage' = [storage EXCEPT ![t].custom = TRUE]
      BY <2>6 DEF Rename
    <3>2. Update([storage[t] EXCEPT !.custom = TRUE]) = Update(storage[t])
      BY <2>4, <3>1 DEF Item, Update
    <3> QED BY <2>3, <2>6, <3>1, <3>2 DEF Rename
  <2>7. CASE \/ FocusOpened \/ FocusFailed \/ UNCHANGED vars
             \/ \E t \in Thread : FocusLookup(t)
    BY <2>2, <2>7 DEF FocusOpened, FocusFailed, FocusLookup, vars
  <2>8. CASE Acknowledge /\ UNCHANGED storage
    BY <2>2, <2>8 DEF Acknowledge, storeVars
  <2> QED BY <1>2, <2>1, <2>5, <2>6, <2>7, <2>8 DEF FocusNext
<1> QED BY <1>1, <1>2

\* A poll that lists what the one before did leaves in the store what the
\* provider says, and leaves out no thread that outranks one it keeps: however
\* the polls before it were interleaved with focus commands and renames.
THEOREM MostUsefulIsKept == FocusSpec => []MostUsefulOnceRepeated
<1>1. FocusInv /\ RankInv => MostUsefulOnceRepeated
  BY DEF RankInv, Agrees, MostUsefulOnceRepeated
<1> QED BY <1>1, FocusInitInv, FocusNextInv, FocusRank, PTL DEF FocusSpec
=============================================================================
