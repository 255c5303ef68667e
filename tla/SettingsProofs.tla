--------------------------- MODULE SettingsProofs ---------------------------
(***************************************************************************)
(* Proofs about Settings, for any values, checks, defaults and requests.   *)
(***************************************************************************)
EXTENDS Settings, TLAPS

\* The four keys, in the order in which chat_settings_save sets them.
LEMMA KeyOrderFacts ==
    /\ Len(KeyOrder) = 4
    /\ \A i \in 1..4 : KeyOrder[i] \in Keys
    /\ \A k \in Keys : \E i \in 1..4 : KeyOrder[i] = k
<1>1. Len(KeyOrder) = 4 /\ \A i \in 1..4 : KeyOrder[i] \in Keys
  BY DEF KeyOrder, Keys
<1>2. ASSUME NEW k \in Keys PROVE \E i \in 1..4 : KeyOrder[i] = k
  <2>1. KeyOrder[1] = "ssid" /\ KeyOrder[2] = "pass" /\ KeyOrder[3] = "admin"
        /\ KeyOrder[4] = "chan"
    BY DEF KeyOrder
  <2>2. k \in {"ssid", "pass", "admin", "chan"}
    BY DEF Keys
  <2> QED BY <2>1, <2>2
<1> QED BY <1>1, <1>2

Settled == [Keys -> Values]
Saving == pc \in {"saving", "committing"}

\* What a field of NVS may hold besides nothing: a value somebody chose, or
\* the one that is meant to be saved.
Candidates(k) == Chosen(k) \cup (IF Saving THEN {Meant[k]} ELSE {})
Holds(v, k) == v \in Candidates(k) \/ (v = Absent /\ Factory[k] \in Candidates(k))

\* What is stored is valid, and was chosen, except what a save took over from a
\* default of a boot that could not read the key.
StoreInv ==
    \A k \in Keys :
        /\ nvs[k] \in ValidValues[k] \cup {Absent} /\ flash[k] \in ValidValues[k] \cup {Absent}
        /\ k \notin adopted => Holds(nvs[k], k) /\ Holds(flash[k], k)

\* A save in progress has set the keys up to the one it is at.
ProgressInv ==
    /\ pc = "saving" => \A i \in 1..written : nvs[KeyOrder[i]] = updated[KeyOrder[i]]
    /\ pc = "saving" => written < 4
    /\ pc = "committing" => nvs = updated

\* Everything chosen passed the checks.
ValidInv ==
    /\ IsValid(settings) /\ IsValid(acked)
    /\ \A s \in failed : IsValid(s)
    /\ Saving => IsValid(updated)

IInv == TypeOK /\ StoreInv /\ ProgressInv /\ ValidInv /\ FieldsAreChosen

-----------------------------------------------------------------------------
(* Values chosen are values, and valid. *)

LEMMA MeantIsValid ==
    ASSUME TypeOK, ValidInv, Saving
    PROVE  Meant \in Settled /\ IsValid(Meant)
<1>1. ASSUME NEW k \in Keys PROVE Meant[k] \in Values /\ Meant[k] \in ValidValues[k]
  BY DEF Meant, TypeOK, ValidInv, IsValid
<1>2. Meant = [k \in Keys |-> Meant[k]]
  BY DEF Meant
<1> QED BY <1>1, <1>2 DEF Settled, IsValid

LEMMA CandidatesAreValid ==
    ASSUME TypeOK, ValidInv, NEW k \in Keys, NEW v \in Candidates(k)
    PROVE  v \in Values /\ v \in ValidValues[k]
<1>1. CASE v \in Chosen(k)
  <2>1. v = acked[k] \/ \E s \in failed : v = s[k]
    BY <1>1 DEF Chosen
  <2> QED BY <2>1 DEF TypeOK, ValidInv, IsValid
<1>2. CASE Saving /\ v = Meant[k]
  BY <1>2, MeantIsValid DEF Settled, IsValid
<1> QED BY <1>1, <1>2 DEF Candidates

\* No mixture of stored fields, whatever could be read of it, brings back the
\* defaults as a whole.
LEMMA LoadedIsMerged ==
    ASSUME NEW stored, \A k \in Keys : stored[k] \in ValidValues[k] \cup {Absent}
    PROVE  IsValid(Merged(stored)) /\ Loaded(stored) = Merged(stored)
           /\ Merged(stored) \in Settled
<1>1. ASSUME NEW k \in Keys
      PROVE  Merged(stored)[k] \in Values /\ Merged(stored)[k] \in ValidValues[k]
  <2>1. CASE stored[k] = Absent
    BY <2>1, SettingsAssumption DEF Merged
  <2>2. CASE stored[k] # Absent
    BY <2>2, SettingsAssumption DEF Merged
  <2> QED BY <2>1, <2>2
<1>2. Merged(stored) = [k \in Keys |-> Merged(stored)[k]]
  BY DEF Merged
<1> QED BY <1>1, <1>2 DEF Loaded, IsValid, Settled

\* The invariant implies the property about usable settings.
LEMMA UsableFollows == IInv => UsableSettings
<1> SUFFICES ASSUME IInv PROVE UsableSettings
  OBVIOUS
<1>3. IsValid(Merged(nvs)) /\ IsValid(Merged(flash))
  BY LoadedIsMerged DEF IInv, StoreInv
<1> QED BY <1>3 DEF IInv, ValidInv, UsableSettings

-----------------------------------------------------------------------------
(* The invariant is inductive. *)

LEMMA InitInv == Init => IInv
<1> SUFFICES ASSUME Init PROVE IInv
  OBVIOUS
<1> USE SettingsAssumption
<1>1. TypeOK
  <2>1. Absents \in [Keys -> Values \cup {Absent}] /\ Factory \in [Keys -> Values]
    BY DEF Absents
  <2>2. written \in 0..Len(KeyOrder)
    BY KeyOrderFacts DEF Init
  <2> HIDE SettingsAssumption
  <2> QED BY <2>1, <2>2 DEF Init, TypeOK
<1>2. StoreInv
  BY DEF Init, StoreInv, Holds, Absents, Candidates, Chosen, Saving
<1>3. ProgressInv
  BY DEF Init, ProgressInv
<1>4. ValidInv
  BY DEF Init, ValidInv, IsValid, Saving
<1>5. FieldsAreChosen
  BY DEF Init, FieldsAreChosen
<1> QED BY <1>1, <1>2, <1>3, <1>4, <1>5 DEF IInv

\* What was chosen stays a candidate as long as no save succeeds and nothing
\* is erased.
LEMMA StoreKept ==
    ASSUME StoreInv, UNCHANGED <<store, adopted>>,
           \A k \in Keys : Candidates(k) \subseteq Candidates(k)'
    PROVE  StoreInv'
BY DEF StoreInv, Holds, store

LEMMA PowerOnStep == IInv /\ PowerOn => IInv'
<1> SUFFICES ASSUME IInv, PowerOn PROVE IInv'
  OBVIOUS
<1> USE DEF IInv
<1>1. PICK lost \in Unreadable :
        LET read == [k \in Keys |-> IF k \in lost THEN Absent ELSE nvs[k]]
        IN  settings' = Loaded(read) /\ unread' = lost
  BY DEF PowerOn
<1> DEFINE read == [k \in Keys |-> IF k \in lost THEN Absent ELSE nvs[k]]
<1>2. \A k \in Keys : read[k] \in ValidValues[k] \cup {Absent}
  BY DEF StoreInv
<1>3. settings' = Merged(read) /\ IsValid(Merged(read)) /\ Merged(read) \in Settled
  <2> HIDE DEF read
  <2>1. Loaded(read) = Merged(read) /\ IsValid(Merged(read)) /\ Merged(read) \in Settled
    BY <1>2, LoadedIsMerged
  <2>2. settings' = Loaded(read)
    BY <1>1 DEF read
  <2> QED BY <2>1, <2>2
<1>4. \A k \in Keys : Candidates(k)' = Candidates(k) /\ Candidates(k) = Chosen(k)
      /\ Chosen(k)' = Chosen(k)
  BY DEF PowerOn, Candidates, Chosen, Saving
<1>5. TypeOK'
  BY <1>1, <1>3, SettingsAssumption DEF TypeOK, PowerOn, store, Settled
<1>6. StoreInv'
  BY <1>4, StoreKept DEF PowerOn
<1>7. ProgressInv' /\ ValidInv'
  BY <1>3 DEF PowerOn, ProgressInv, ValidInv, IsValid, Saving
<1>8. FieldsAreChosen'
  <2>1. ASSUME NEW k \in Keys \ (lost \cup adopted) PROVE Merged(read)[k] \in Chosen(k)
    <3>1. read[k] = nvs[k]
      OBVIOUS
    <3>2. \/ read[k] \in Chosen(k) /\ read[k] # Absent
          \/ read[k] = Absent /\ Factory[k] \in Chosen(k)
      BY <3>1, <1>4, CandidatesAreValid, SettingsAssumption DEF StoreInv, Holds
    <3> HIDE DEF read
    <3> QED BY <3>2 DEF Merged
  <2> QED BY <1>1, <1>3, <1>4, <2>1 DEF FieldsAreChosen, PowerOn
<1> QED BY <1>5, <1>6, <1>7, <1>8

LEMMA EraseStep == IInv /\ Erase => IInv'
<1> SUFFICES ASSUME IInv, Erase PROVE IInv'
  OBVIOUS
<1> USE SettingsAssumption DEF IInv, Erase
<1>1. TypeOK'
  BY DEF TypeOK, Absents
<1>2. StoreInv'
  BY DEF StoreInv, Holds, Absents, Candidates, Chosen, Saving
<1>3. ProgressInv' /\ ValidInv' /\ FieldsAreChosen'
  BY DEF ProgressInv, ValidInv, IsValid, Saving, FieldsAreChosen
<1> QED BY <1>1, <1>2, <1>3

LEMMA PostStep == IInv /\ SomePost => IInv'
<1> SUFFICES ASSUME IInv, NEW change \in Changes, NEW password \in Values,
                    NEW restart \in BOOLEAN, Post(change, password, restart)
             PROVE  IInv'
  BY DEF SomePost
<1> USE DEF IInv, Post
<1>1. updated' \in Settled /\ IsValid(updated')
  <2>1. ASSUME NEW k \in Keys
        PROVE  updated'[k] \in Values /\ updated'[k] \in ValidValues[k]
    <3>1. CASE change[k] = Absent
      BY <3>1 DEF Update, TypeOK, ValidInv, IsValid
    <3>2. CASE change[k] # Absent
      BY <3>2, SettingsAssumption DEF Update, Acceptable
    <3> QED BY <3>1, <3>2
  <2>2. updated' = [k \in Keys |-> updated'[k]]
    BY DEF Update
  <2> QED BY <2>1, <2>2 DEF Settled, IsValid
<1>2. TypeOK'
  BY <1>1, KeyOrderFacts DEF TypeOK, Settled, store
<1>3. \A k \in Keys : Candidates(k) \subseteq Candidates(k)' /\ Chosen(k)' = Chosen(k)
  BY DEF Candidates, Chosen, Saving
<1>4. StoreInv'
  BY <1>3, StoreKept
<1>5. ProgressInv' /\ ValidInv'
  BY <1>1 DEF ProgressInv, ValidInv, IsValid, Saving
<1>6. FieldsAreChosen'
  BY <1>3 DEF FieldsAreChosen
<1> QED BY <1>2, <1>4, <1>5, <1>6

LEMMA SetKeyStep == IInv /\ SetKey => IInv'
<1> SUFFICES ASSUME IInv, SetKey PROVE IInv'
  OBVIOUS
<1> USE DEF IInv
<1> DEFINE k0 == KeyOrder[written + 1]
<1>1. written \in 0..3 /\ k0 \in Keys /\ written' = written + 1
  BY KeyOrderFacts DEF SetKey, TypeOK
<1>2. /\ nvs' = [nvs EXCEPT ![k0] = updated[k0]]
      /\ \E v \in {flash[k0], updated[k0]} : flash' = [flash EXCEPT ![k0] = v]
  BY DEF SetKey
<1>a. adopted' = adopted \cup ({k0} \cap TakenOver)
  BY DEF SetKey
<1>3. TypeOK'
  BY <1>1, <1>2, <1>a, KeyOrderFacts DEF TypeOK, SetKey
<1>b. Saving /\ Saving' /\ Meant' = Meant
  <2>1. TakenOver' = TakenOver
    BY <1>a DEF SetKey, TakenOver
  <2> QED BY <2>1 DEF SetKey, Saving, Meant
<1>4. \A k \in Keys : Candidates(k)' = Candidates(k) /\ Chosen(k)' = Chosen(k)
                       /\ Meant[k] \in Candidates(k)
  BY <1>b DEF SetKey, Candidates, Chosen
<1>5. StoreInv'
  <2>1. k0 \notin adopted' => updated[k0] \in Candidates(k0)
    BY <1>1, <1>4, <1>a DEF Meant
  <2>2. updated[k0] \in ValidValues[k0]
    BY <1>1, <1>b DEF ValidInv, IsValid
  <2>3. \A k \in Keys : Holds(nvs[k], k)' = Holds(nvs'[k], k) /\ Holds(flash[k], k)' = Holds(flash'[k], k)
    BY <1>4 DEF Holds
  <2>4. ASSUME NEW k \in Keys
        PROVE  /\ nvs'[k] \in {nvs[k], updated[k]} /\ (k # k0 => nvs'[k] = nvs[k])
               /\ flash'[k] \in {flash[k], updated[k]} /\ (k # k0 => flash'[k] = flash[k])
    BY <1>1, <1>2 DEF TypeOK
  <2>5. ASSUME NEW k \in Keys, k # k0
        PROVE  /\ nvs'[k] \in ValidValues[k] \cup {Absent} /\ flash'[k] \in ValidValues[k] \cup {Absent}
               /\ k \notin adopted' => Holds(nvs'[k], k) /\ Holds(flash'[k], k)
    BY <2>4, <2>5, <1>a DEF StoreInv
  <2>6. /\ nvs'[k0] \in ValidValues[k0] \cup {Absent} /\ flash'[k0] \in ValidValues[k0] \cup {Absent}
        /\ k0 \notin adopted' => Holds(nvs'[k0], k0) /\ Holds(flash'[k0], k0)
    <3> HIDE DEF k0
    <3>1. nvs'[k0] \in {nvs[k0], updated[k0]} /\ flash'[k0] \in {flash[k0], updated[k0]}
      BY <2>4, <1>1
    <3> QED BY <3>1, <2>1, <2>2, <1>1, <1>a DEF StoreInv, Holds
  <2> QED BY <2>3, <2>5, <2>6 DEF StoreInv
<1>6. ProgressInv'
  <2>1. \A i \in 1..written' : nvs'[KeyOrder[i]] = updated'[KeyOrder[i]]
    <3> SUFFICES ASSUME NEW i \in 1..written' PROVE nvs'[KeyOrder[i]] = updated[KeyOrder[i]]
      BY DEF SetKey
    <3>1. i \in 1..4 /\ KeyOrder[i] \in Keys
      BY <1>1, KeyOrderFacts
    <3>2. CASE KeyOrder[i] = k0
      BY <3>1, <3>2, <1>2 DEF TypeOK
    <3>3. CASE KeyOrder[i] # k0
      <4>1. i \in 1..written
        BY <1>1, <3>3
      <4>2. nvs[KeyOrder[i]] = updated[KeyOrder[i]]
        BY <4>1 DEF ProgressInv, SetKey
      <4> QED BY <4>2, <3>1, <3>3, <1>2 DEF TypeOK
    <3> QED BY <3>2, <3>3
  <2>2. written' = 4 => nvs' = updated'
    <3> SUFFICES ASSUME written' = 4 PROVE nvs' = updated
      BY DEF SetKey
    <3>1. \A k \in Keys : nvs'[k] = updated[k]
      BY <2>1, KeyOrderFacts DEF SetKey
    <3>2. nvs' = [k \in Keys |-> nvs'[k]] /\ updated = [k \in Keys |-> updated[k]]
      BY <1>2 DEF TypeOK
    <3> QED BY <3>1, <3>2
  <2> QED BY <2>1, <2>2, <1>1, KeyOrderFacts DEF ProgressInv, SetKey
<1>7. ValidInv' /\ FieldsAreChosen'
  BY <1>4, KeyOrderFacts DEF ValidInv, IsValid, Saving, FieldsAreChosen, SetKey
<1> QED BY <1>3, <1>5, <1>6, <1>7

\* What a failed or interrupted save leaves in flash was a candidate, and is
\* one afterwards, since the settings that were being saved count as chosen.
LEMMA FlushedIsCandidate ==
    ASSUME IInv, NEW f \in PartlyFlushed, NEW k \in Keys
    PROVE  /\ f[k] \in ValidValues[k] \cup {Absent}
           /\ k \notin adopted => Holds(f[k], k)
BY DEF IInv, StoreInv, PartlyFlushed

LEMMA SaveFailsStep == IInv /\ SaveFails => IInv'
<1> SUFFICES ASSUME IInv, SaveFails PROVE IInv'
  OBVIOUS
<1> USE DEF IInv, SaveFails
<1>1. \A k \in Keys : Candidates(k)' = Candidates(k) /\ Meant[k] \in Candidates(k)
  BY DEF Candidates, Chosen, Saving
<1>2. /\ adopted \subseteq adopted' /\ adopted' \subseteq Keys
      /\ flash' \in [Keys -> Values \cup {Absent}]
      /\ \A k \in Keys : /\ flash'[k] \in ValidValues[k] \cup {Absent}
                         /\ k \notin adopted' => Holds(flash'[k], k)
  <2>1. CASE pc = "committing"
    <3>1. flash' \in PartlyFlushed /\ adopted' = adopted
      BY <2>1
    <3> QED BY <3>1, FlushedIsCandidate DEF PartlyFlushed, TypeOK
  <2>2. CASE pc = "saving"
    <3> DEFINE k0 == KeyOrder[written + 1]
    <3>1. k0 \in Keys
      BY <2>2, KeyOrderFacts DEF TypeOK, ProgressInv
    <3>2. PICK v \in {flash[k0], updated[k0]} : flash' = [flash EXCEPT ![k0] = v]
      BY <2>2
    <3>3. adopted' = adopted \cup ({k0} \cap TakenOver)
      BY <2>2
    <3> HIDE DEF k0
    <3>4. updated[k0] \in ValidValues[k0]
          /\ (k0 \notin adopted' => Holds(updated[k0], k0))
      BY <3>1, <3>3, <1>1 DEF ValidInv, IsValid, Saving, Meant, Holds
    <3>5. v \in ValidValues[k0] \cup {Absent} /\ (k0 \notin adopted' => Holds(v, k0))
      BY <3>1, <3>3, <3>4 DEF StoreInv
    <3>6. ASSUME NEW k \in Keys
          PROVE  /\ flash'[k] \in ValidValues[k] \cup {Absent}
                 /\ k \notin adopted' => Holds(flash'[k], k)
      <4>1. flash'[k] = IF k = k0 THEN v ELSE flash[k]
        BY <3>2 DEF TypeOK
      <4> QED BY <4>1, <3>3, <3>5 DEF StoreInv
    <3> QED BY <3>1, <3>2, <3>3, <3>6 DEF TypeOK
  <2> QED BY <2>1, <2>2
<1>3. TypeOK'
  <2>1. failed' \subseteq Settled
    BY MeantIsValid DEF Saving, Settled, TypeOK
  <2> QED BY <1>2, <2>1 DEF TypeOK, Settled
<1>4. StoreInv'
  BY <1>1, <1>2 DEF StoreInv, Holds
<1>5. ProgressInv' /\ ValidInv'
  BY MeantIsValid DEF ProgressInv, ValidInv, IsValid, Saving
<1>6. FieldsAreChosen'
  BY <1>2 DEF FieldsAreChosen, Chosen
<1> QED BY <1>3, <1>4, <1>5, <1>6

LEMMA CommitStep == IInv /\ Commit => IInv'
<1> SUFFICES ASSUME IInv, Commit PROVE IInv'
  OBVIOUS
<1> USE DEF IInv, Commit
<1>1. nvs = updated /\ Saving
  BY DEF ProgressInv, Saving
<1>2. Meant \in Settled /\ IsValid(Meant)
  BY <1>1, MeantIsValid
<1>3. TakenOver \subseteq Keys
  BY DEF TakenOver, TypeOK
<1>4. TypeOK'
  BY <1>2, <1>3 DEF TypeOK, Settled
<1>5. \A k \in Keys : k \notin TakenOver => updated[k] = Meant[k]
  BY DEF Meant
<1>6. \A k \in Keys : Chosen(k)' = {Meant[k]} /\ Candidates(k)' = {Meant[k]}
  BY DEF Chosen, Candidates, Saving
<1>7. StoreInv'
  BY <1>1, <1>5, <1>6 DEF StoreInv, Holds, ValidInv, IsValid
<1>8. ProgressInv' /\ ValidInv'
  BY <1>1, <1>2 DEF ProgressInv, ValidInv, IsValid, Saving
<1>9. FieldsAreChosen'
  BY <1>5, <1>6 DEF FieldsAreChosen
<1> QED BY <1>4, <1>7, <1>8, <1>9

LEMMA DownStep == IInv /\ Down => IInv'
<1> SUFFICES ASSUME IInv, Down PROVE IInv'
  OBVIOUS
<1> USE DEF IInv, Down
<1>1. \A k \in Keys : Candidates(k)' = Candidates(k)
  BY DEF Candidates, Chosen, Saving
<1>2. /\ flash' \in [Keys -> Values \cup {Absent}]
      /\ \A k \in Keys : /\ flash'[k] \in ValidValues[k] \cup {Absent}
                         /\ k \notin adopted => Holds(flash'[k], k)
  <2>1. CASE pc = "committing"
    <3>1. flash' \in PartlyFlushed
      BY <2>1
    <3> QED BY <3>1, FlushedIsCandidate DEF PartlyFlushed
  <2>2. CASE pc # "committing"
    BY <2>2 DEF TypeOK, StoreInv
  <2> QED BY <2>1, <2>2
<1>3. TypeOK'
  <2>1. failed' \subseteq Settled
    BY MeantIsValid DEF Saving, Settled, TypeOK
  <2> QED BY <1>2, <2>1 DEF TypeOK, Settled
<1>4. StoreInv'
  BY <1>1, <1>2 DEF StoreInv, Holds
<1>5. ProgressInv' /\ ValidInv' /\ FieldsAreChosen'
  BY MeantIsValid DEF ProgressInv, ValidInv, IsValid, Saving, FieldsAreChosen
<1> QED BY <1>3, <1>4, <1>5

LEMMA Step == IInv /\ [Next]_vars => IInv'
<1> SUFFICES ASSUME IInv, [Next]_vars PROVE IInv'
  OBVIOUS
<1>1. CASE UNCHANGED vars
  BY <1>1 DEF IInv, vars, store, TypeOK, StoreInv, ProgressInv, ValidInv, FieldsAreChosen,
              Candidates, Chosen, Holds, Saving, Meant, TakenOver, IsValid
<1>2. CASE PowerLoss \/ RestartTask
  BY <1>2, DownStep DEF PowerLoss, RestartTask
<1> QED BY <1>1, <1>2, PowerOnStep, EraseStep, PostStep, SetKeyStep, SaveFailsStep,
           CommitStep DEF Next

-----------------------------------------------------------------------------
(* The theorems *)

\* The invariant holds in every run: what NVS holds is valid and was chosen by
\* somebody, key by key, however saves of chat_settings_save fail or are cut,
\* except what a save took over from a boot that could not read the key.
THEOREM StoreCorrect == Spec => []IInv
<1>1. Init => IInv
  BY InitInv
<1>2. IInv /\ [Next]_vars => IInv'
  BY Step
<1> QED BY <1>1, <1>2, PTL DEF Spec

\* Type correctness, for any values and requests.
THEOREM SettingsTypes == Spec => []TypeOK
<1>1. IInv => TypeOK
  BY DEF IInv
<1> QED BY <1>1, StoreCorrect, PTL

\* No interruption of a save, no failed write and no restart puts a field in
\* use that nobody chose (chat_settings_load and its fall-back to defaults),
\* unless a read of that key failed.
THEOREM ChosenInUse == Spec => []FieldsAreChosen
<1>1. IInv => FieldsAreChosen
  BY DEF IInv
<1> QED BY <1>1, StoreCorrect, PTL

\* The settings in use, and those the next boot will find, pass the checks.
THEOREM AlwaysUsable == Spec => []UsableSettings
<1>1. IInv => UsableSettings
  BY UsableFollows
<1> QED BY <1>1, StoreCorrect, PTL
=============================================================================
