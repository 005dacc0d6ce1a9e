----------------------------- MODULE FakeClient -----------------------------
(***************************************************************************)
(* FakeCascorClient (src/juniper_cascor_client/testing/fake_client.py):    *)
(* the in-memory service that stands in for JuniperCascorClient in tests,  *)
(* used by several threads.                                                *)
(*                                                                         *)
(* A method holds the lock from its first statement to its last, and is    *)
(* one action; only advance_epoch(), a loop under the lock, takes an       *)
(* action per epoch, and _request() tests for close() before it takes the  *)
(* lock.  An injected error of the error_prone scenario, like a refusal,   *)
(* leaves everything as it was: a method may always do nothing.            *)
(*                                                                         *)
(* A network is its epochs_max and its hidden units; snapshots and workers *)
(* are literals in the code and not part of the state.                     *)
(***************************************************************************)
EXTENDS Integers, Sequences

CONSTANTS
  Scenarios,     \* scenarios the fake may be built with
  Epochs,        \* values of `epochs` and of `epochs_max`
  DefaultEpochs, \* DEFAULT_MAX_EPOCHS
  InitialEpoch,  \* epoch of the scenarios that start with a history
  InitialUnits,  \* hidden units of the network they start with
  UnitInterval,  \* epochs between two cascade events,
  UnitCap,       \* the most of them, generate_metrics_snapshot(),
  XorUnits,      \* and the units of the metrics of xor_converged
  Datasets,      \* datasets given to start_training(), or staged
  Steps,         \* values of advance_epoch(n)
  LastEpoch      \* bound: epochs are advanced no further

None == "none"

ASSUME FakeClientAssumption ==
  /\ Scenarios \subseteq {"idle", "empty", "two_spiral_training", "xor_converged", "error_prone"}
  /\ Epochs \subseteq Nat \ {0} /\ DefaultEpochs \in Epochs /\ Steps \subseteq Nat
  /\ {InitialEpoch, InitialUnits, UnitCap, XorUnits, LastEpoch} \subseteq Nat
  /\ UnitInterval \in Nat \ {0} /\ None \notin Datasets
  \* the networks of xor_converged and error_prone have the units of their metrics
  /\ InitialUnits >= XorUnits
  /\ \A e \in 0..InitialEpoch : InitialUnits >= e \div UnitInterval

VARIABLES
  scenario,     \* self._scenario
  closed,       \* self._closed
  loaded,       \* self._network_loaded
  epochsMax,    \* self._network_config["epochs_max"], 0 without a network
  units,        \* self._topology["hidden_units"], -1 without a topology
  state,        \* self._state
  epoch,        \* self._epoch
  history,      \* self._metrics_history: the epochs of the snapshots
  lastEpoch,    \* self._training_params["epochs"], 0 without training params
  dataset,      \* self._dataset
  staged,       \* self._pending_dataset_config
  experimental, \* self._experimental_functions_enabled
  advancing,    \* iterations left to the advance_epoch() that holds the lock
  inside,       \* calls of _request() between their test for close() and the lock
  forced        \* history: set_state() was called in this run

network == <<loaded, epochsMax, units, dataset>>
run == <<state, epoch, history, lastEpoch>>
extras == <<staged, experimental>>
vars == <<scenario, closed, network, run, extras, advancing, inside, forced>>

States == {"STOPPED", "STARTED", "PAUSED", "COMPLETED"}
Active == {"STARTED", "PAUSED"}
Calls == [route : {"stage"}, arg : Datasets]
           \cup [route : {"clear", "enable", "disable"}, arg : {None}]

TypeOK ==
  /\ scenario \in Scenarios /\ closed \in BOOLEAN /\ loaded \in BOOLEAN
  /\ epochsMax \in Epochs \cup {0} /\ lastEpoch \in Epochs \cup {0}
  /\ units \in Nat \cup {-1}
  /\ units <= UnitCap \/ units <= InitialUnits
  /\ state \in States /\ epoch \in Nat /\ history \in Seq(Nat)
  /\ dataset \in Datasets \cup {None, "preset"} /\ staged \in Datasets \cup {None}
  /\ experimental \in BOOLEAN /\ advancing \in Nat /\ inside \subseteq Calls
  /\ forced \in BOOLEAN

\* Mutant: units without a limit.
UnitsUncapped(e) == IF scenario = "xor_converged" THEN XorUnits ELSE e \div UnitInterval

\* hidden_units in generate_metrics_snapshot().
UnitsAt(e) ==
  IF scenario = "xor_converged" THEN XorUnits
  ELSE IF e \div UnitInterval <= UnitCap THEN e \div UnitInterval ELSE UnitCap

Preset(s) == s \in {"two_spiral_training", "xor_converged", "error_prone"}
Played(s) == s \in {"xor_converged", "error_prone"}

Init ==
  /\ scenario \in Scenarios
  /\ closed = FALSE /\ advancing = 0 /\ inside = {} /\ forced = FALSE
  /\ loaded = Preset(scenario)
  /\ epochsMax = (IF Preset(scenario) THEN DefaultEpochs ELSE 0)
  /\ units = (IF Played(scenario) THEN InitialUnits ELSE IF Preset(scenario) THEN 0 ELSE -1)
  /\ dataset = (IF Preset(scenario) THEN "preset" ELSE None)
  /\ state = CASE scenario = "two_spiral_training" -> "STARTED"
               [] scenario = "xor_converged" -> "COMPLETED"
               [] OTHER -> "STOPPED"
  /\ epoch = (IF Played(scenario) THEN InitialEpoch ELSE 0)
  /\ history = [i \in 1..epoch |-> i - 1]
  /\ lastEpoch = (IF scenario = "two_spiral_training" THEN DefaultEpochs ELSE 0)
  /\ staged = None /\ experimental = FALSE

------------------------------------------------------------------------------
\* The methods of the REST client.  CanCall: the lock is free, and
\* _check_closed() passes.

LockFree == advancing = 0
CanCall == LockFree /\ ~closed
Idle == state' = "STOPPED" /\ epoch' = 0 /\ history' = <<>>

CreateNetwork ==
  /\ CanCall /\ ~loaded
  /\ loaded' = TRUE /\ units' = 0 /\ epochsMax' \in Epochs
  /\ Idle /\ forced' = FALSE
  /\ UNCHANGED <<scenario, closed, dataset, lastEpoch, extras, advancing, inside>>

\* Mutant: the topology outlives its network.
DeleteKeepsTopology ==
  /\ CanCall /\ loaded /\ state # "STARTED"
  /\ loaded' = FALSE /\ epochsMax' = 0 /\ dataset' = None /\ UNCHANGED units
  /\ Idle /\ lastEpoch' = 0 /\ forced' = FALSE
  /\ UNCHANGED <<scenario, closed, extras, advancing, inside>>

DeleteNetwork ==
  /\ CanCall /\ loaded /\ state # "STARTED"
  /\ loaded' = FALSE /\ epochsMax' = 0 /\ units' = -1 /\ dataset' = None
  /\ Idle /\ lastEpoch' = 0 /\ forced' = FALSE
  /\ UNCHANGED <<scenario, closed, extras, advancing, inside>>

\* Mutant: the metrics of the run before are kept.
StartKeepsHistory ==
  /\ CanCall /\ loaded /\ state \notin Active
  /\ \E e \in Epochs \cup {epochsMax} : lastEpoch' = e
  /\ dataset' \in Datasets \cup {dataset}
  /\ state' = "STARTED" /\ epoch' = 0 /\ UNCHANGED history
  /\ staged' = None /\ forced' = FALSE
  /\ UNCHANGED <<scenario, closed, loaded, epochsMax, units, experimental, advancing, inside>>

\* The hidden units of the run before stay.  The staged dataset is dropped.
StartTraining ==
  /\ CanCall /\ loaded /\ state \notin Active
  /\ \E e \in Epochs \cup {epochsMax} : lastEpoch' = e
  /\ dataset' \in Datasets \cup {dataset}
  /\ state' = "STARTED" /\ epoch' = 0 /\ history' = <<>>
  /\ staged' = None /\ forced' = FALSE
  /\ UNCHANGED <<scenario, closed, loaded, epochsMax, units, experimental, advancing, inside>>

MoveTo(from, to) ==
  /\ CanCall /\ state \in from /\ state' = to
  /\ UNCHANGED <<scenario, closed, network, epoch, history, lastEpoch, extras, advancing,
                 inside, forced>>

StopTraining == MoveTo(Active, "STOPPED")
PauseTraining == MoveTo({"STARTED"}, "PAUSED")
ResumeTraining == MoveTo({"PAUSED"}, "STARTED")

ResetTraining ==
  /\ CanCall /\ loaded
  /\ units' = 0 /\ Idle /\ lastEpoch' = 0 /\ forced' = FALSE
  /\ UNCHANGED <<scenario, closed, loaded, epochsMax, dataset, extras, advancing, inside>>

\* The training params of a run under way keep their epochs.
UpdateParams ==
  /\ CanCall /\ loaded /\ epochsMax' \in Epochs
  /\ UNCHANGED <<scenario, closed, loaded, units, dataset, run, extras, advancing, inside,
                 forced>>

\* _request(): the test for close(), and the route under the lock.
Ask ==
  /\ ~closed
  /\ \E c \in Calls : c \notin inside /\ inside' = inside \cup {c}
  /\ UNCHANGED <<scenario, closed, network, run, extras, advancing, forced>>

Answer ==
  /\ LockFree
  /\ \E c \in inside :
       /\ inside' = inside \ {c}
       /\ staged' = CASE c.route = "stage" -> c.arg [] c.route = "clear" -> None
                      [] OTHER -> staged
       /\ experimental' = CASE c.route = "enable" -> TRUE [] c.route = "disable" -> FALSE
                            [] OTHER -> experimental
  /\ UNCHANGED <<scenario, closed, network, run, advancing, forced>>

Close ==
  /\ LockFree /\ closed' = TRUE
  /\ UNCHANGED <<scenario, network, run, extras, advancing, inside, forced>>

------------------------------------------------------------------------------
\* The test helpers, which work after close() too

\* Mutant: one epoch too many.
OverLate(e) == e > (IF lastEpoch = 0 THEN DefaultEpochs ELSE lastEpoch)

Over(e) == e >= (IF lastEpoch = 0 THEN DefaultEpochs ELSE lastEpoch)

AdvanceEpoch ==
  /\ LockFree /\ state \in Active
  /\ \E n \in Steps : epoch + n <= LastEpoch /\ advancing' = n
  /\ UNCHANGED <<scenario, closed, network, run, extras, inside, forced>>

\* Mutant: the last epoch of a run does not reach the topology.
EpochBreaksFirst ==
  /\ advancing > 0
  /\ epoch' = epoch + 1 /\ history' = Append(history, epoch + 1)
  /\ units' = (IF units = -1 \/ UnitsAt(epoch + 1) <= units \/ Over(epoch + 1) THEN units
               ELSE UnitsAt(epoch + 1))
  /\ state' = (IF Over(epoch + 1) THEN "COMPLETED" ELSE state)
  /\ advancing' = (IF Over(epoch + 1) THEN 0 ELSE advancing - 1)
  /\ UNCHANGED <<scenario, closed, loaded, epochsMax, dataset, lastEpoch, extras, inside, forced>>

\* An iteration of its loop.
Epoch ==
  /\ advancing > 0
  /\ epoch' = epoch + 1 /\ history' = Append(history, epoch + 1)
  /\ units' = (IF units = -1 \/ UnitsAt(epoch + 1) <= units THEN units ELSE UnitsAt(epoch + 1))
  /\ state' = (IF Over(epoch + 1) THEN "COMPLETED" ELSE state)
  /\ advancing' = (IF Over(epoch + 1) THEN 0 ELSE advancing - 1)
  /\ UNCHANGED <<scenario, closed, loaded, epochsMax, dataset, lastEpoch, extras, inside, forced>>

SetState ==
  /\ LockFree /\ state' \in States /\ forced' = TRUE
  /\ UNCHANGED <<scenario, closed, network, epoch, history, lastEpoch, extras, advancing, inside>>

Next ==
  \/ CreateNetwork \/ DeleteNetwork \/ UpdateParams
  \/ StartTraining \/ StopTraining \/ PauseTraining \/ ResumeTraining \/ ResetTraining
  \/ Ask \/ Answer \/ Close
  \/ AdvanceEpoch \/ Epoch \/ SetState

Spec == Init /\ [][Next]_vars

------------------------------------------------------------------------------
\* What the reading methods return

CurrentEpoch == epoch                                    \* get_training_status()
TotalMetrics == Len(history)
HiddenUnits == IF units = -1 THEN 0 ELSE units           \* get_statistics(), get_topology()
MetricsEpoch == IF history = <<>> THEN CurrentEpoch ELSE history[Len(history)]
MetricsUnits == IF history = <<>> THEN 0 ELSE UnitsAt(MetricsEpoch)

------------------------------------------------------------------------------
\* Properties

\* Config and topology come and go with the network, and without one there is
\* nothing left of a dataset or a run (create_network(), delete_network()).
NetworkWhole ==
  /\ loaded <=> epochsMax # 0
  /\ loaded <=> units # -1
  /\ ~loaded => dataset = None
  /\ ~loaded /\ ~forced => CurrentEpoch = 0 /\ TotalMetrics = 0 /\ state = "STOPPED"

\* The history has an entry for each epoch of the present run: 1, 2, ..., the
\* current one, after the 0, 1, ... that a scenario starts with.  What
\* get_metrics() reports is thus at most one epoch behind the status.
HistoryIsRun ==
  /\ TotalMetrics = CurrentEpoch
  /\ \E k \in {0, InitialEpoch} :
       \A i \in 1..TotalMetrics : history[i] = IF i <= k THEN i - 1 ELSE i
  /\ MetricsEpoch \in {CurrentEpoch, CurrentEpoch - 1}

\* The topology has the hidden units that the metrics report.
UnitsCoverHistory == loaded => HiddenUnits >= MetricsUnits

\* Unless set_state() interferes, a run that is active has a network and epochs
\* to go, and one that completed did so at exactly its last epoch, however
\* advance_epoch() overshoots and whatever update_params() changed meanwhile.
RunProgress ==
  ~forced =>
    /\ state \in Active => loaded /\ lastEpoch # 0 /\ CurrentEpoch < lastEpoch
    /\ state = "COMPLETED" /\ lastEpoch # 0 => CurrentEpoch = lastEpoch
==============================================================================
