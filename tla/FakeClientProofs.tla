-------------------------- MODULE FakeClientProofs --------------------------
(***************************************************************************)
(* FakeCascorClient: type correctness and the bookkeeping of network, run, *)
(* metrics and topology, for any scenarios, numbers of epochs, intervals   *)
(* and steps.                                                              *)
(***************************************************************************)
EXTENDS FakeClient, SequenceTheorems, TLAPS

------------------------------------------------------------------------------
\* Type correctness

LEMMA ConstantsTyped ==
  ASSUME FakeClientAssumption
  PROVE  /\ Epochs \subseteq Nat \ {0} /\ DefaultEpochs \in Epochs /\ Steps \subseteq Nat
         /\ InitialEpoch \in Nat /\ InitialUnits \in Nat /\ UnitCap \in Nat
         /\ XorUnits \in Nat /\ LastEpoch \in Nat /\ UnitInterval \in Nat \ {0}
         /\ None \notin Datasets
         /\ InitialUnits >= XorUnits
         /\ \A e \in 0..InitialEpoch : InitialUnits >= e \div UnitInterval
         /\ Scenarios \subseteq {"idle", "empty", "two_spiral_training", "xor_converged",
                                 "error_prone"}
  BY DEF FakeClientAssumption

LEMMA QuotientTyped ==
  ASSUME FakeClientAssumption, NEW e \in Nat
  PROVE  e \div UnitInterval \in Nat
  BY ConstantsTyped

LEMMA UnitsTyped ==
  ASSUME FakeClientAssumption, NEW e \in Nat
  PROVE  /\ UnitsAt(e) \in Nat
         /\ UnitsAt(e) <= UnitCap \/ UnitsAt(e) <= InitialUnits
<1>1. e \div UnitInterval \in Nat
  BY QuotientTyped
<1> DEFINE q == e \div UnitInterval
<1>2. UnitsAt(e) = IF scenario = "xor_converged" THEN XorUnits
                   ELSE IF q <= UnitCap THEN q ELSE UnitCap
  BY DEF UnitsAt
<1>3. q \in Nat
  BY <1>1
<1> HIDE DEF q
<1>4. QED
  BY <1>2, <1>3, ConstantsTyped

\* The parts of TypeOK.
FlagsTyped == /\ closed \in BOOLEAN /\ loaded \in BOOLEAN
              /\ experimental \in BOOLEAN /\ forced \in BOOLEAN
TopologyTyped == /\ units \in Nat \cup {-1}
                 /\ units <= UnitCap \/ units <= InitialUnits
RunTyped == /\ state \in States /\ epoch \in Nat /\ history \in Seq(Nat)
            /\ lastEpoch \in Epochs \cup {0} /\ advancing \in Nat
ConfigTyped == /\ scenario \in Scenarios /\ epochsMax \in Epochs \cup {0}
               /\ dataset \in Datasets \cup {None, "preset"}
               /\ staged \in Datasets \cup {None} /\ inside \subseteq Calls

Parts == FlagsTyped /\ TopologyTyped /\ RunTyped /\ ConfigTyped

LEMMA TypeParts == (TypeOK <=> Parts) /\ (TypeOK' <=> Parts')
  BY DEF TypeOK, Parts, FlagsTyped, TopologyTyped, RunTyped, ConfigTyped

LEMMA InitTyped == ASSUME FakeClientAssumption, Init PROVE TypeOK
<1>1. FlagsTyped
  <2>1. Preset(scenario) \in BOOLEAN
    BY DEF Preset
  <2>2. QED
    BY <2>1 DEF Init, FlagsTyped
<1>2. TopologyTyped
  BY ConstantsTyped DEF Init, TopologyTyped, Preset, Played
<1>3. RunTyped
  <2>1. epoch \in Nat /\ lastEpoch \in Epochs \cup {0}
    BY ConstantsTyped DEF Init
  <2>2. history \in Seq(Nat)
    BY SMTT(60), <2>1, IsASeq DEF Init
  <2>3. QED
    BY <2>1, <2>2 DEF Init, RunTyped, States
<1>4. ConfigTyped
  BY ConstantsTyped DEF Init, ConfigTyped
<1>5. QED
  BY <1>1, <1>2, <1>3, <1>4, TypeParts DEF Parts

LEMMA EpochTyped == ASSUME FakeClientAssumption, TypeOK, Epoch PROVE TypeOK'
<1>1. epoch \in Nat /\ epoch + 1 \in Nat /\ history \in Seq(Nat) /\ advancing \in Nat
  BY DEF TypeOK
<1>2. FlagsTyped'
  BY DEF Epoch, TypeOK, FlagsTyped, extras
<1>3. TopologyTyped'
  BY <1>1, UnitsTyped DEF Epoch, TypeOK, TopologyTyped
<1>4. RunTyped'
  <2>1. history' \in Seq(Nat)
    BY <1>1, AppendProperties DEF Epoch
  <2>2. QED
    BY <1>1, <2>1 DEF Epoch, TypeOK, States, RunTyped
<1>5. ConfigTyped'
  BY DEF Epoch, TypeOK, ConfigTyped, extras
<1>6. QED
  BY <1>2, <1>3, <1>4, <1>5, TypeParts DEF Parts

LEMMA NextTyped == ASSUME FakeClientAssumption, TypeOK, [Next]_vars PROVE TypeOK'
<1>1. CASE CreateNetwork
  <2>1. FlagsTyped'
    BY <1>1 DEF CreateNetwork, TypeOK, FlagsTyped, extras
  <2>2. TopologyTyped'
    BY <1>1, ConstantsTyped DEF CreateNetwork, TopologyTyped
  <2>3. RunTyped' /\ ConfigTyped'
    BY <1>1 DEF CreateNetwork, Idle, TypeOK, States, RunTyped, ConfigTyped, extras
  <2>4. QED
    BY <2>1, <2>2, <2>3, TypeParts DEF Parts
<1>2. CASE DeleteNetwork
  <2>1. FlagsTyped'
    BY <1>2 DEF DeleteNetwork, TypeOK, FlagsTyped, extras
  <2>2. TopologyTyped'
    BY <1>2, ConstantsTyped DEF DeleteNetwork, TopologyTyped
  <2>3. RunTyped' /\ ConfigTyped'
    BY <1>2 DEF DeleteNetwork, Idle, TypeOK, States, RunTyped, ConfigTyped, extras
  <2>4. QED
    BY <2>1, <2>2, <2>3, TypeParts DEF Parts
<1>3. CASE UpdateParams
  BY <1>3 DEF UpdateParams, TypeOK, run, extras
<1>4. CASE StartTraining
  <2>1. FlagsTyped' /\ TopologyTyped'
    BY <1>4 DEF StartTraining, TypeOK, FlagsTyped, TopologyTyped
  <2>2. lastEpoch' \in Epochs \cup {0} /\ dataset' \in Datasets \cup {None, "preset"}
    BY <1>4 DEF StartTraining, TypeOK
  <2>3. RunTyped'
    BY <1>4, <2>2 DEF StartTraining, TypeOK, States, RunTyped
  <2>4. ConfigTyped'
    BY <1>4, <2>2 DEF StartTraining, TypeOK, ConfigTyped
  <2>5. QED
    BY <2>1, <2>3, <2>4, TypeParts DEF Parts
<1>5. CASE StopTraining \/ PauseTraining \/ ResumeTraining
  BY <1>5 DEF StopTraining, PauseTraining, ResumeTraining, MoveTo, TypeOK, States, network, extras
<1>6. CASE ResetTraining
  <2>1. FlagsTyped'
    BY <1>6 DEF ResetTraining, TypeOK, FlagsTyped, extras
  <2>2. TopologyTyped'
    BY <1>6, ConstantsTyped DEF ResetTraining, TopologyTyped
  <2>3. RunTyped' /\ ConfigTyped'
    BY <1>6 DEF ResetTraining, Idle, TypeOK, States, RunTyped, ConfigTyped, extras
  <2>4. QED
    BY <2>1, <2>2, <2>3, TypeParts DEF Parts
<1>7. CASE Ask
  BY <1>7 DEF Ask, TypeOK, network, run, extras
<1>8. CASE Answer
  <2>1. PICK c \in inside :
          /\ inside' = inside \ {c}
          /\ staged' = CASE c.route = "stage" -> c.arg [] c.route = "clear" -> None
                         [] OTHER -> staged
          /\ experimental' = CASE c.route = "enable" -> TRUE [] c.route = "disable" -> FALSE
                               [] OTHER -> experimental
    BY <1>8 DEF Answer
  <2>2. c \in Calls
    BY DEF TypeOK
  <2>3. staged' \in Datasets \cup {None} /\ experimental' \in BOOLEAN
    BY <2>1, <2>2 DEF TypeOK, Calls
  <2>4. QED
    BY <1>8, <2>1, <2>3 DEF Answer, TypeOK, network, run
<1>9. CASE Close
  BY <1>9 DEF Close, TypeOK, network, run, extras
<1>10. CASE AdvanceEpoch
  BY <1>10, ConstantsTyped DEF AdvanceEpoch, TypeOK, network, run, extras
<1>11. CASE Epoch
  BY <1>11, EpochTyped
<1>12. CASE SetState
  BY <1>12 DEF SetState, TypeOK, network, extras
<1>13. CASE UNCHANGED vars
  BY <1>13 DEF vars, TypeOK, network, run, extras
<1>14. QED
  BY <1>1, <1>2, <1>3, <1>4, <1>5, <1>6, <1>7, <1>8, <1>9, <1>10, <1>11, <1>12, <1>13
  DEF Next

\* Every variable keeps its type, and the topology never has more hidden units
\* than the cap or the scenario's network (advance_epoch()).
THEOREM TypeCorrect == Spec => []TypeOK
<1>1. Init => TypeOK
  BY InitTyped, FakeClientAssumption
<1>2. TypeOK /\ [Next]_vars => TypeOK'
  BY NextTyped, FakeClientAssumption
<1>3. QED
  BY <1>1, <1>2, PTL DEF Spec

------------------------------------------------------------------------------
\* Network, run and topology

\* The lock is held by advance_epoch() only while the run is active.
Busy == advancing > 0 => state \in Active

\* The history starts with the k entries 0, 1, ... of a scenario.
StartsWith(k) ==
  /\ k <= epoch /\ Len(history) = epoch
  /\ \A i \in 1..Len(history) : history[i] = IF i <= k THEN i - 1 ELSE i

HistoryInv == \E k \in {0, InitialEpoch} : StartsWith(k)

\* The topology covers the latest metrics, whatever the network.
Covers == loaded /\ history # <<>> => units >= UnitsAt(history[Len(history)])

Inv == TypeOK /\ Busy /\ NetworkWhole /\ HistoryInv /\ Covers /\ RunProgress

LEMMA HistoryFacts ==
  ASSUME FakeClientAssumption, TypeOK, HistoryInv
  PROVE  HistoryIsRun
<1>1. PICK k \in {0, InitialEpoch} : StartsWith(k)
  BY DEF HistoryInv
<1>2. Len(history) \in Nat /\ k \in Nat /\ Len(history) = epoch
  BY <1>1, ConstantsTyped DEF StartsWith, TypeOK
<1>3. CASE history = <<>>
  BY <1>1, <1>2, <1>3 DEF HistoryIsRun, StartsWith, TotalMetrics, CurrentEpoch, MetricsEpoch
<1>4. CASE history # <<>>
  <2>1. Len(history) \in 1..Len(history)
    BY <1>2, <1>4, EmptySeq DEF TypeOK
  <2>2. history[Len(history)] \in {epoch, epoch - 1}
    BY <1>1, <1>2, <2>1 DEF StartsWith
  <2>3. QED
    BY <1>1, <1>2, <1>4, <2>2 DEF HistoryIsRun, StartsWith, TotalMetrics, CurrentEpoch,
                                  MetricsEpoch
<1>5. QED
  BY <1>3, <1>4

LEMMA CoversFacts ==
  ASSUME FakeClientAssumption, TypeOK, NetworkWhole, Covers
  PROVE  UnitsCoverHistory
<1>1. CASE loaded /\ history = <<>>
  BY <1>1 DEF UnitsCoverHistory, NetworkWhole, HiddenUnits, MetricsUnits, TypeOK
<1>2. CASE loaded /\ history # <<>>
  BY <1>2 DEF UnitsCoverHistory, NetworkWhole, Covers, HiddenUnits, MetricsUnits, MetricsEpoch
<1>3. QED
  BY <1>1, <1>2 DEF UnitsCoverHistory

LEMMA FreshRun ==
  ASSUME epoch' = 0, history' = <<>>
  PROVE  HistoryInv' /\ Covers'
<1>1. Len(history') = 0
  BY EmptySeq
<1>2. StartsWith(0)'
  BY <1>1 DEF StartsWith
<1>3. QED
  BY <1>2 DEF HistoryInv, Covers

LEMMA SameRun ==
  ASSUME HistoryInv, Covers, UNCHANGED <<epoch, history, units, loaded, scenario>>
  PROVE  HistoryInv' /\ Covers'
  BY DEF HistoryInv, StartsWith, Covers, UnitsAt

LEMMA InitInv == ASSUME FakeClientAssumption, Init PROVE Inv
<1>1. TypeOK
  BY InitTyped
<1>2. Busy /\ NetworkWhole
  <2>1. Busy
    BY DEF Init, Busy
  <2>2. DefaultEpochs # 0 /\ InitialUnits # -1
    BY ConstantsTyped
  <2>3. CASE Preset(scenario)
    BY <2>1, <2>2, <2>3 DEF Init, NetworkWhole
  <2>4. CASE ~Preset(scenario)
    <3>1. ~Played(scenario) /\ state = "STOPPED" /\ epoch = 0
      BY <2>4 DEF Init, Preset, Played
    <3>2. ~loaded /\ epochsMax = 0 /\ units = -1 /\ dataset = None
      BY <2>4, <3>1 DEF Init
    <3>3. history = <<>>
      BY <3>1 DEF Init
    <3>4. Len(history) = 0
      BY <3>3, EmptySeq
    <3>5. QED
      BY <2>1, <3>1, <3>2, <3>4 DEF NetworkWhole, CurrentEpoch, TotalMetrics
  <2>5. QED
    BY <2>1, <2>3, <2>4
<1>3. HistoryInv
  <2>1. epoch \in {0, InitialEpoch} /\ epoch \in Nat
    BY ConstantsTyped DEF Init
  <2>2. Len(history) = epoch
    BY <2>1, LenProperties, IsASeq DEF Init
  <2>3. StartsWith(epoch)
    BY <2>1, <2>2 DEF Init, StartsWith
  <2>4. QED
    BY <2>1, <2>3 DEF HistoryInv
<1>4. Covers
  <2>1. SUFFICES ASSUME loaded, history # <<>>
                 PROVE  units >= UnitsAt(history[Len(history)])
    BY DEF Covers
  <2>2. epoch \in Nat /\ Len(history) = epoch
    BY ConstantsTyped, LenProperties, IsASeq DEF Init
  <2>3. epoch # 0
    BY <2>1, <2>2, EmptySeq, <1>1 DEF TypeOK
  <2>4. Played(scenario) /\ epoch = InitialEpoch /\ units = InitialUnits
    BY <2>3 DEF Init
  <2>5. history[Len(history)] = InitialEpoch - 1 /\ InitialEpoch - 1 \in 0..InitialEpoch
    <3>1. Len(history) \in 1..epoch /\ Len(history) = InitialEpoch
      BY <2>2, <2>3, <2>4
    <3>2. history[Len(history)] = Len(history) - 1
      BY <3>1 DEF Init
    <3>3. QED
      BY <2>2, <2>3, <2>4, <3>1, <3>2, ConstantsTyped
  <2>6. InitialUnits >= (InitialEpoch - 1) \div UnitInterval
    BY <2>5, ConstantsTyped
  <2> DEFINE q == (InitialEpoch - 1) \div UnitInterval
  <2>7. q \in Nat
    <3>1. InitialEpoch - 1 \in Nat
      BY <2>5, ConstantsTyped
    <3>2. QED
      BY <3>1, QuotientTyped
  <2>8. UnitsAt(InitialEpoch - 1) = IF scenario = "xor_converged" THEN XorUnits
                                    ELSE IF q <= UnitCap THEN q ELSE UnitCap
    BY DEF UnitsAt
  <2>9. InitialUnits >= q
    BY <2>6
  <2> HIDE DEF q
  <2>10. InitialUnits >= UnitsAt(InitialEpoch - 1)
    BY <2>7, <2>8, <2>9, ConstantsTyped
  <2>11. QED
    BY <2>4, <2>5, <2>10
<1>5. RunProgress
  <2>1. CASE scenario = "two_spiral_training"
    <3>1. state = "STARTED" /\ loaded /\ epoch = 0 /\ lastEpoch = DefaultEpochs
      BY <2>1 DEF Init, Preset, Played
    <3>2. DefaultEpochs \in Nat /\ DefaultEpochs # 0
      BY ConstantsTyped
    <3>3. QED
      BY <3>1, <3>2 DEF RunProgress, CurrentEpoch, Active
  <2>2. CASE scenario # "two_spiral_training"
    <3>1. state \notin Active /\ lastEpoch = 0
      BY <2>2 DEF Init, Active
    <3>2. QED
      BY <3>1 DEF RunProgress
  <2>3. QED
    BY <2>1, <2>2
<1>6. QED
  BY <1>1, <1>2, <1>3, <1>4, <1>5 DEF Inv

\* An epoch of advance_epoch() extends the history, takes the topology along, and
\* completes the run at its last epoch.
LEMMA EpochInv == ASSUME FakeClientAssumption, Inv, Epoch PROVE Inv'
<1>1. TypeOK /\ TypeOK' /\ state \in Active /\ advancing > 0
  BY EpochTyped DEF Inv, Busy, Epoch
<1>2. epoch \in Nat /\ epoch + 1 \in Nat /\ epoch' = epoch + 1 /\ history \in Seq(Nat) /\ advancing \in Nat
      /\ history' = Append(history, epoch + 1)
  BY <1>1 DEF Epoch, TypeOK
<1>3. PICK k \in {0, InitialEpoch} : StartsWith(k)
  BY DEF Inv, HistoryInv
<1>4. Len(history) = epoch /\ k \in Nat /\ k <= epoch
  BY <1>3, ConstantsTyped DEF StartsWith
<1>5. /\ Len(history') = epoch + 1 /\ history'[epoch + 1] = epoch + 1
      /\ \A i \in 1..epoch : history'[i] = history[i]
  <2>1. /\ Len(Append(history, epoch + 1)) = Len(history) + 1
        /\ Append(history, epoch + 1)[Len(history) + 1] = epoch + 1
        /\ \A i \in 1..Len(history) : Append(history, epoch + 1)[i] = history[i]
    BY <1>2, AppendProperties
  <2>2. QED
    BY <1>2, <1>4, <2>1
<1>6. HistoryInv'
  <2>1. \A i \in 1..(epoch + 1) : history'[i] = IF i <= k THEN i - 1 ELSE i
    <3>1. ASSUME NEW i \in 1..epoch PROVE history'[i] = IF i <= k THEN i - 1 ELSE i
      BY <1>3, <1>4, <1>5 DEF StartsWith
    <3>2. history'[epoch + 1] = epoch + 1 /\ ~(epoch + 1 <= k)
      BY <1>2, <1>4, <1>5
    <3>3. \A i \in 1..(epoch + 1) : i \in 1..epoch \/ i = epoch + 1
      BY <1>2
    <3>4. QED
      BY <3>1, <3>2, <3>3
  <2>2. k <= epoch' /\ Len(history') = epoch'
    BY <1>2, <1>4, <1>5
  <2>3. StartsWith(k)'
    BY <1>2, <2>1, <2>2 DEF StartsWith
  <2>4. QED
    BY <2>3 DEF HistoryInv
<1>7. UNCHANGED <<scenario, loaded, epochsMax, dataset, lastEpoch, forced>>
  BY DEF Epoch
<1> DEFINE u == UnitsAt(epoch + 1)
<1>u. u \in Nat /\ units' = IF units = -1 \/ u <= units THEN units ELSE u
  <2>1. u \in Nat
    BY <1>2, UnitsTyped
  <2>2. QED
    BY <2>1 DEF Epoch
<1> HIDE DEF u
<1>8. NetworkWhole'
  <2>1. units = -1 <=> units' = -1
    BY <1>u
  <2>2. ~loaded => forced
    BY <1>1 DEF Inv, NetworkWhole, Active
  <2>3. QED
    BY <1>7, <2>1, <2>2 DEF Inv, NetworkWhole
<1>9. Covers'
  <2>1. history'[Len(history')] = epoch + 1
    BY <1>5
  <2>2. loaded => units # -1 /\ units \in Nat
    BY <1>1 DEF Inv, NetworkWhole, TypeOK
  <2>3. loaded => units' >= u
    BY <1>u, <2>2
  <2>4. UnitsAt(history[Len(history)])' = u
    BY <1>7, <2>1 DEF UnitsAt, u
  <2>5. QED
    BY <1>7, <2>3, <2>4 DEF Covers
<1>10. Busy'
  BY <1>1 DEF Epoch, Busy
<1>11. RunProgress'
  <2>1. CASE forced
    BY <1>7, <2>1 DEF RunProgress
  <2>2. CASE ~forced
    <3>1. loaded /\ lastEpoch # 0 /\ epoch < lastEpoch /\ lastEpoch \in Nat
      BY <1>1, <2>2, ConstantsTyped DEF Inv, RunProgress, CurrentEpoch, TypeOK
    <3>2. Over(epoch + 1) <=> epoch + 1 >= lastEpoch
      BY <3>1 DEF Over
    <3>3. CASE Over(epoch + 1)
      <4>1. state' = "COMPLETED"
        BY <3>3 DEF Epoch
      <4>2. epoch' = lastEpoch
        BY <1>2, <3>1, <3>2, <3>3
      <4>3. QED
        BY <1>7, <4>1, <4>2 DEF RunProgress, CurrentEpoch, Active
    <3>4. CASE ~Over(epoch + 1)
      <4>1. state' = state
        BY <3>4 DEF Epoch
      <4>2. epoch' < lastEpoch
        BY <1>2, <3>1, <3>2, <3>4
      <4>3. QED
        BY <1>1, <1>7, <3>1, <4>1, <4>2 DEF RunProgress, CurrentEpoch, Active
    <3>5. QED
      BY <3>3, <3>4
  <2>3. QED
    BY <2>1, <2>2
<1>12. QED
  BY <1>1, <1>6, <1>8, <1>9, <1>10, <1>11 DEF Inv

\* A step that begins a run anew, or leaves the network without one.
LEMMA FreshNetwork ==
  ASSUME FakeClientAssumption, Inv, CreateNetwork \/ DeleteNetwork \/ ResetTraining
  PROVE  (Busy /\ NetworkWhole /\ RunProgress)' /\ epoch' = 0 /\ history' = <<>>
<1>1. state' = "STOPPED" /\ epoch' = 0 /\ history' = <<>> /\ advancing' = 0
  BY DEF CreateNetwork, DeleteNetwork, ResetTraining, Idle, CanCall, LockFree
<1>2. Len(history') = 0
  BY <1>1, EmptySeq
<1>3. /\ loaded' <=> epochsMax' # 0
      /\ loaded' <=> units' # -1
      /\ ~loaded' => dataset' = None
  <2>1. CASE CreateNetwork
    BY <2>1, ConstantsTyped DEF CreateNetwork
  <2>2. CASE DeleteNetwork
    BY <2>2 DEF DeleteNetwork
  <2>3. CASE ResetTraining
    BY <2>3 DEF ResetTraining, Inv, NetworkWhole
  <2>4. QED
    BY <2>1, <2>2, <2>3
<1>4. QED
  BY <1>1, <1>2, <1>3
  DEF Busy, NetworkWhole, RunProgress, CurrentEpoch, TotalMetrics, Active

LEMMA StartInv == ASSUME FakeClientAssumption, Inv, StartTraining PROVE Inv'
<1>1. TypeOK'
  BY NextTyped DEF Inv, Next
<1>2. /\ loaded /\ state' = "STARTED" /\ epoch' = 0 /\ history' = <<>> /\ advancing' = advancing
      /\ UNCHANGED <<loaded, epochsMax, units>>
  BY DEF StartTraining, CanCall
<1>3. lastEpoch' \in Nat /\ lastEpoch' > 0
  <2>1. epochsMax \in Epochs
    BY <1>2 DEF Inv, NetworkWhole, TypeOK
  <2>2. lastEpoch' \in Epochs
    BY <2>1 DEF StartTraining
  <2>3. QED
    BY <2>2, ConstantsTyped
<1>4. NetworkWhole'
  BY <1>2 DEF Inv, NetworkWhole
<1>5. Busy' /\ RunProgress'
  BY <1>2, <1>3 DEF Busy, RunProgress, CurrentEpoch, Active
<1>6. QED
  BY <1>1, <1>2, <1>4, <1>5, FreshRun DEF Inv

\* A step that leaves metrics and topology as they are, and does not start a run
\* that is not active.
LEMMA SameNetwork ==
  ASSUME Inv, UNCHANGED <<scenario, loaded, units, dataset, epoch, history>>,
         loaded' <=> epochsMax' # 0, forced => forced',
         ~forced' /\ state = "STOPPED" => state' = "STOPPED"
  PROVE  (HistoryInv /\ Covers /\ NetworkWhole)'
<1>1. (HistoryInv /\ Covers)'
  BY SameRun DEF Inv
<1>2. NetworkWhole'
  BY DEF Inv, NetworkWhole, CurrentEpoch, TotalMetrics
<1>3. QED
  BY <1>1, <1>2

LEMMA NextInv == ASSUME FakeClientAssumption, Inv, [Next]_vars PROVE Inv'
<1>1. TypeOK /\ TypeOK'
  BY NextTyped DEF Inv
<1>2. loaded <=> epochsMax # 0
  BY DEF Inv, NetworkWhole
<1>3. CASE CreateNetwork \/ DeleteNetwork \/ ResetTraining
  BY <1>1, <1>3, FreshNetwork, FreshRun DEF Inv
<1>4. CASE UpdateParams
  <2>1. loaded' /\ epochsMax' # 0
    BY <1>4, ConstantsTyped DEF UpdateParams
  <2>2. /\ UNCHANGED <<scenario, loaded, units, dataset, epoch, history>>
        /\ UNCHANGED <<state, lastEpoch, advancing, forced>>
    BY <1>4 DEF UpdateParams, run
  <2>3. (Busy /\ RunProgress)'
    BY <2>2 DEF Inv, Busy, RunProgress, CurrentEpoch
  <2>4. QED
    BY <1>1, <2>1, <2>2, <2>3, SameNetwork DEF Inv
<1>5. CASE StartTraining
  BY <1>5, StartInv
<1>6. CASE StopTraining \/ PauseTraining \/ ResumeTraining
  <2>1. /\ UNCHANGED <<scenario, loaded, epochsMax, units, dataset, epoch, history>>
        /\ UNCHANGED <<lastEpoch, advancing, forced>> /\ advancing = 0
        /\ state \in Active /\ state' \in Active \cup {"STOPPED"}
    BY <1>6 DEF StopTraining, PauseTraining, ResumeTraining, MoveTo, CanCall, LockFree,
                network, Active
  <2>2. (Busy /\ RunProgress)'
    BY <2>1 DEF Inv, Busy, RunProgress, CurrentEpoch, Active
  <2>3. state # "STOPPED"
    BY <2>1 DEF Active
  <2>4. QED
    BY <1>1, <1>2, <2>1, <2>2, <2>3, SameNetwork DEF Inv
<1>7. CASE Ask \/ Answer \/ Close \/ UNCHANGED vars
  <2>1. /\ UNCHANGED <<scenario, loaded, epochsMax, units, dataset, epoch, history>>
        /\ UNCHANGED <<state, lastEpoch, advancing, forced>>
    BY <1>7 DEF Ask, Answer, Close, vars, network, run
  <2>2. (Busy /\ RunProgress)'
    BY <2>1 DEF Inv, Busy, RunProgress, CurrentEpoch
  <2>3. QED
    BY <1>1, <1>2, <2>1, <2>2, SameNetwork DEF Inv
<1>8. CASE AdvanceEpoch
  <2>1. /\ UNCHANGED <<scenario, loaded, epochsMax, units, dataset, epoch, history>>
        /\ UNCHANGED <<state, lastEpoch, forced>> /\ state \in Active
    BY <1>8 DEF AdvanceEpoch, network, run
  <2>2. (Busy /\ RunProgress)'
    BY <2>1 DEF Inv, Busy, RunProgress, CurrentEpoch
  <2>3. QED
    BY <1>1, <1>2, <2>1, <2>2, SameNetwork DEF Inv
<1>9. CASE Epoch
  BY <1>9, EpochInv
<1>10. CASE SetState
  <2>1. /\ UNCHANGED <<scenario, loaded, epochsMax, units, dataset, epoch, history>>
        /\ advancing = 0 /\ advancing' = 0 /\ forced' = TRUE
    BY <1>10 DEF SetState, LockFree, network
  <2>2. (Busy /\ RunProgress)'
    BY <2>1 DEF Busy, RunProgress
  <2>3. QED
    BY <1>1, <1>2, <2>1, <2>2, SameNetwork DEF Inv
<1>11. QED
  BY <1>3, <1>4, <1>5, <1>6, <1>7, <1>8, <1>9, <1>10 DEF Next

\* The inductive invariant holds in every state: besides the properties below,
\* the lock is held by advance_epoch() only while the run is active.
THEOREM Invariant == Spec => []Inv
<1>1. Init => Inv
  BY InitInv, FakeClientAssumption
<1>2. Inv /\ [Next]_vars => Inv'
  BY NextInv, FakeClientAssumption
<1>3. QED
  BY <1>1, <1>2, PTL DEF Spec

\* Config, topology and dataset come and go with the network (create_network(),
\* delete_network()).
THEOREM NetworkIsWhole == Spec => []NetworkWhole
<1>1. Inv => NetworkWhole
  BY DEF Inv
<1>2. QED
  BY <1>1, Invariant, PTL

\* The metrics are those of the present run, one per epoch, whatever calls came
\* before (start_training(), advance_epoch(), get_metrics_history()).
THEOREM HistoryIsOfRun == Spec => []HistoryIsRun
<1>1. Inv => HistoryIsRun
  BY HistoryFacts, FakeClientAssumption DEF Inv
<1>2. QED
  BY <1>1, Invariant, PTL

\* The topology has the hidden units that the metrics report (advance_epoch()).
THEOREM UnitsAreCovered == Spec => []UnitsCoverHistory
<1>1. Inv => UnitsCoverHistory
  BY CoversFacts, FakeClientAssumption DEF Inv
<1>2. QED
  BY <1>1, Invariant, PTL

\* A run that set_state() does not touch completes at exactly its last epoch
\* (advance_epoch()).
THEOREM RunsProgress == Spec => []RunProgress
<1>1. Inv => RunProgress
  BY DEF Inv
<1>2. QED
  BY <1>1, Invariant, PTL
=============================================================================
