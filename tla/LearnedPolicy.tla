----------------------------- MODULE LearnedPolicy -----------------------------
(***************************************************************************)
(* LearnedParamPolicy (policy/learned_search.py): what it proposes and the *)
(* rewards it is given are paired into transitions, a full buffer makes an *)
(* update, and every few updates the weights are saved as a snapshot,      *)
(* which a later process loads as the teacher.  The network and its losses *)
(* are left out; weights are known by the save that wrote them.            *)
(***************************************************************************)
EXTENDS Naturals, Sequences, FiniteSetsExt

CONSTANTS None, Torn, UpdateEvery, SnapshotEvery,
          MaxVersion     \* bound: snapshot versions looked at

ASSUME LearnedAssumption ==
    UpdateEvery \in Nat \ {0} /\ SnapshotEvery \in Nat \ {0} /\ MaxVersion \in Nat

VARIABLES pending,       \* _pending: the draw that waits for its reward
          buffered,      \* how many transitions _buffer holds
          updates,       \* _update_count
          saving,        \* inside save_policy_snapshot
          disk,          \* policy_vNNNN.json: None, Torn or the number of the save
          saves,         \* how many snapshots were ever written
          teacher,
          credits        \* history: the transitions of this process

learnerMemory == <<pending, buffered, updates, saving, teacher, credits>>
learnerVars == <<learnerMemory, disk, saves>>

(* get_latest_snapshot_version *)
Versions == {v \in 1..MaxVersion : disk[v] # None}
Latest == IF Versions = {} THEN None ELSE disk[Max(Versions)]

(* A snapshot that does not parse raises in the constructor. *)
Constructible == Latest # Torn

LearnerMemoryInit(loaded) ==
    /\ pending = None /\ buffered = 0 /\ updates = 0 /\ saving = FALSE
    /\ teacher = loaded /\ credits = <<>>

LearnerInit ==
    /\ disk = [v \in 1..MaxVersion |-> None] /\ saves = 0
    /\ LearnerMemoryInit(None)

Construct ==
    /\ pending' = None /\ buffered' = 0 /\ updates' = 0 /\ saving' = FALSE
    /\ teacher' = (IF Constructible THEN Latest ELSE None) /\ credits' = <<>>
    /\ UNCHANGED <<disk, saves>>

(* propose: the transition of an earlier draw is overwritten. *)
Draw(id) == pending' = id /\ UNCHANGED <<buffered, updates, saving, teacher, credits, disk, saves>>

(* The pending transition enters the buffer, a full buffer makes an update. *)
Credit(iter) ==
    /\ credits' = Append(credits, [draw |-> pending, trial |-> iter])
    /\ buffered' = (buffered + 1) % UpdateEvery
    /\ updates' = IF buffered' = 0 THEN updates + 1 ELSE updates
    /\ saving' = (buffered' = 0 /\ updates' % SnapshotEvery = 0)
    /\ UNCHANGED <<teacher, disk, saves>>

(* Mutant of Record: the transition stays pending. *)
RecordKeepsPending(iter) ==
    IF pending = None THEN UNCHANGED learnerVars ELSE Credit(iter) /\ UNCHANGED pending

(* record_reward *)
Record(iter) ==
    IF pending = None THEN UNCHANGED learnerVars ELSE Credit(iter) /\ pending' = None

(* save_policy_snapshot opens the file for writing, then fills it.         *)
OpenSnapshot ==
    /\ saving /\ disk[updates] # Torn
    /\ disk' = [disk EXCEPT ![updates] = Torn]
    /\ UNCHANGED <<learnerMemory, saves>>

CloseSnapshot ==
    /\ saving /\ disk[updates] = Torn
    /\ saves' = saves + 1
    /\ disk' = [disk EXCEPT ![updates] = saves'] /\ teacher' = saves'
    /\ saving' = FALSE
    /\ UNCHANGED <<pending, buffered, updates, credits>>

LearnerTypeOK ==
    /\ pending \in Nat \cup {None} /\ buffered \in 0..UpdateEvery - 1
    /\ updates \in Nat /\ saving \in BOOLEAN /\ saves \in Nat
    /\ disk \in [1..MaxVersion -> {None, Torn} \cup 1..saves]
    /\ teacher \in {None} \cup 1..saves

(* No draw is credited twice, no trial credits twice, and the later trial  *)
(* credits the later draw.                                                 *)
CreditedOnce ==
    \A i, j \in 1..Len(credits) :
        i < j => credits[i].draw < credits[j].draw /\ credits[i].trial < credits[j].trial

=============================================================================
