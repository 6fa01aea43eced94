--------------------------- MODULE WorkItemFocus ----------------------------
(***************************************************************************)
(* What meets the session poll on the Mac: the focus command of the watch  *)
(* (FocusHandler.focus, then AppModel.reconcileFocusedWorkItem) and the    *)
(* rename in the application's window.                                     *)
(*                                                                         *)
(* The watch names a slot.  The handler looks its item up, awaits the      *)
(* opening of that thread and then acknowledges the slot: the poll may     *)
(* run between any two of these.  Commands are handled one at a time.      *)
(***************************************************************************)
EXTENDS WorkItemStore

VARIABLES
  focus,    \* the focus command being handled
  acked     \* the provider update each seen thread was acknowledged at

vars == <<storeVars, focus, acked>>

NoFocus == [step |-> "none", slot |-> 0]
NoUpdate == [state |-> "none", updatedAt |-> 0]
Update(item) == [state |-> item.state, updatedAt |-> item.updatedAt]

FocusTypeOK ==
  /\ TypeOK
  /\ focus \in [step : {"opening", "opened"}, slot : Slots] \cup {NoFocus}
  /\ acked \in [Thread -> Snapshot \cup {NoUpdate}]

FocusInit ==
  /\ Init
  /\ focus = NoFocus
  /\ acked = [t \in Thread |-> NoUpdate]

-----------------------------------------------------------------------------
\* A call of the poll.
PollStep ==
  /\ Next
  /\ acked' = [t \in Thread |->
       IF t \in DOMAIN storage' /\ storage'[t].seen THEN acked[t] ELSE NoUpdate]
  /\ UNCHANGED focus

\* item(forSlot:): the handler goes on to open that thread.
FocusLookup(t) ==
  /\ focus = NoFocus
  /\ t \in Stored
  /\ focus' = [step |-> "opening", slot |-> storage[t].slot]
  /\ UNCHANGED <<storeVars, acked>>

FocusOpened ==
  /\ focus.step = "opening"
  /\ focus' = [focus EXCEPT !.step = "opened"]
  /\ UNCHANGED <<storeVars, acked>>

\* Only the application was activated, or not even that: no acknowledgement.
FocusFailed ==
  /\ focus.step = "opening"
  /\ focus' = NoFocus
  /\ UNCHANGED <<storeVars, acked>>

\* acknowledge(slot:at:): whichever item has the slot by now.
Acknowledge ==
  /\ focus.step = "opened"
  /\ focus' = NoFocus
  /\ \/ \E t \in Stored :
          /\ storage[t].slot = focus.slot
          /\ storage' = [storage EXCEPT ![t].seen = TRUE]
          /\ acked' = [acked EXCEPT ![t] = Update(storage[t])]
     \/ /\ focus.slot \notin UsedSlots
        /\ UNCHANGED <<storage, acked>>
  /\ UNCHANGED <<listing, todo, polling, repeated>>

Rename(t) ==
  /\ t \in Stored
  /\ storage' = [storage EXCEPT ![t].custom = TRUE]
  /\ UNCHANGED <<listing, todo, polling, repeated, focus, acked>>

FocusNext ==
  \/ PollStep
  \/ FocusOpened \/ FocusFailed \/ Acknowledge
  \/ \E t \in Thread : FocusLookup(t) \/ Rename(t)

FocusSpec == FocusInit /\ [][FocusNext]_vars

-----------------------------------------------------------------------------
(* Properties *)

\* An acknowledgement does not outlive the update it was made at: whatever
\* updates, evictions and returns a session goes through, a row is shown as
\* seen only for the provider update it was acknowledged at.
SeenIsCurrent ==
  \A t \in Stored : storage[t].seen => acked[t] = Update(storage[t])
=============================================================================
