------------------------- MODULE StateTracker_proofs -------------------------
(* What the operators of StateTracker return, for every tracker and answer. *)
EXTENDS StateTracker, TLAPS

TrackerAnswers == Values \cup {"yes", "no"}

Outcomes == [entry : Entries, answer : TrackerAnswers]

\* An entry made of a value and a kind is an entry (new StateMetadata).
LEMMA EntryType ==
    ASSUME NEW v \in Values, NEW k \in Kinds
    PROVE  /\ Entry(v, k) \in Entries
           /\ Entry(v, k).value = v
           /\ Entry(v, k).kind = k
BY DEF Entry, Entries

\* A constructed state manager tracks nothing.
LEMMA EmptyTrackerType ==
    /\ Untracked \in Entries
    /\ EmptyTracker \in Trackers
    /\ \A n \in Names : EmptyTracker[n] = Untracked
BY ValueAssumption DEF Untracked, EmptyTracker, Trackers, Entries, Entry, Kinds, Values

\* Whatever entry an operation finds, it leaves an entry and answers.
LEMMA HitType ==
    ASSUME NEW e \in Entries, NEW v \in Values
    PROVE  /\ TryAddHit(e, v) \in Outcomes
           /\ TryGetHit(e) \in Outcomes
           /\ SetHit(e, v) \in Outcomes
           /\ TryRemoveHit(e) \in Outcomes
           /\ ContainsHit(e) \in Outcomes
           /\ AddOrUpdateHit(e, v) \in Outcomes
<1> USE DEF Outcomes, Outcome, Entries, Entry, Kinds, TrackerAnswers
<1>1. TryAddHit(e, v) \in Outcomes
  BY DEF TryAddHit
<1>2. TryGetHit(e) \in Outcomes
  BY DEF TryGetHit
<1>3. SetHit(e, v) \in Outcomes
  BY DEF SetHit
<1>4. TryRemoveHit(e) \in Outcomes
  BY EmptyTrackerType DEF TryRemoveHit
<1>5. ContainsHit(e) \in Outcomes
  BY DEF ContainsHit
<1>6. AddOrUpdateHit(e, v) \in Outcomes
  <2>1. Factory[e.value] \in Values
    BY FactoryAssumption
  <2> QED BY <2>1 DEF AddOrUpdateHit
<1> QED BY <1>1, <1>2, <1>3, <1>4, <1>5, <1>6

\* Whatever the sidecar answers, an operation leaves an entry and answers.
LEMMA MissType ==
    ASSUME NEW e \in Entries, NEW v \in Values, NEW raw \in Values \cup {Missing}
    PROVE  /\ TryAddMiss(e, raw, v) \in Outcomes
           /\ TryGetMiss(e, raw) \in Outcomes
           /\ SetMiss(raw, v) \in Outcomes
           /\ TryRemoveMiss(e, raw) \in Outcomes
           /\ ContainsMiss(e, raw) \in Outcomes
           /\ AddOrUpdateMiss(raw, v) \in Outcomes
<1> USE DEF Outcomes, Outcome, Entries, Entry, Kinds, TrackerAnswers
<1>1. TryAddMiss(e, raw, v) \in Outcomes
  BY DEF TryAddMiss
<1>2. TryGetMiss(e, raw) \in Outcomes
  BY DEF TryGetMiss, TryLoadState, Values
<1>3. SetMiss(raw, v) \in Outcomes
  BY DEF SetMiss
<1>4. TryRemoveMiss(e, raw) \in Outcomes
  BY ValueAssumption DEF TryRemoveMiss, Values
<1>5. ContainsMiss(e, raw) \in Outcomes
  BY DEF ContainsMiss
<1>6. AddOrUpdateMiss(raw, v) \in Outcomes
  <2>1. TryLoadState(raw) => raw \in Values
    BY DEF TryLoadState, Values
  <2>2. TryLoadState(raw) => Factory[raw] \in Values
    BY <2>1, FactoryAssumption
  <2> QED BY <2>2 DEF AddOrUpdateMiss
<1> QED BY <1>1, <1>2, <1>3, <1>4, <1>5, <1>6

\* What saveState makes of the tracker, before and after the transaction,
\* and what the transaction makes of the store.
LEMMA SaveType ==
    ASSUME NEW t \in Trackers, NEW b \in Trackers, NEW s \in Stores
    PROVE  /\ BatchOf(t) \in Trackers
           /\ MarkUnmodified(t) \in Trackers
           /\ DropRemoved(t, b) \in Trackers
           /\ Commit(s, b) \in Stores
<1> USE DEF Trackers, Stores
<1>1. BatchOf(t) \in Trackers
  BY EmptyTrackerType DEF BatchOf
<1>2. MarkUnmodified(t) \in Trackers
  BY DEF MarkUnmodified, Entry, Entries, Kinds
<1>3. DropRemoved(t, b) \in Trackers
  BY EmptyTrackerType DEF DropRemoved
<1>4. Commit(s, b) \in Stores
  BY DEF Commit, Entries
<1> QED BY <1>1, <1>2, <1>3, <1>4

\* What an entry a save leaves unmodified holds is what the transaction makes
\* of the store, if it was so of the unmodified entries before.
LEMMA SaveMarks ==
    ASSUME NEW t \in Trackers, NEW s,
           \A n \in Names : t[n].kind = "NONE" => t[n].value = s[n]
    PROVE  \A n \in Names :
              /\ MarkUnmodified(t)[n].kind \notin Pending
              /\ MarkUnmodified(t)[n].kind = "NONE" =>
                    \/ BatchOf(t)[n].kind = "REMOVE"
                    \/ MarkUnmodified(t)[n].value = Commit(s, BatchOf(t))[n]
<1> SUFFICES ASSUME NEW n \in Names
             PROVE  /\ MarkUnmodified(t)[n].kind \notin Pending
                    /\ MarkUnmodified(t)[n].kind = "NONE" =>
                          \/ BatchOf(t)[n].kind = "REMOVE"
                          \/ MarkUnmodified(t)[n].value = Commit(s, BatchOf(t))[n]
  OBVIOUS
<1>1. CASE t[n].kind \in Pending
  BY <1>1 DEF MarkUnmodified, BatchOf, Entry, Commit, Pending
<1>2. CASE t[n].kind \notin Pending
  <2>1. MarkUnmodified(t)[n] = t[n] /\ BatchOf(t)[n] = Untracked
    BY <1>2 DEF MarkUnmodified, BatchOf
  <2> QED BY <1>2, <2>1 DEF Commit, Untracked, Entry
<1> QED BY <1>1, <1>2
=============================================================================
