SPECIFICATION Spec
CONSTANTS
  Scenarios = {"idle", "two_spiral_training", "xor_converged", "error_prone"}
  Epochs = {2, 3}
  DefaultEpochs = 3
  InitialEpoch = 2
  InitialUnits = 1
  UnitInterval = 2
  UnitCap = 1
  XorUnits = 1
  Datasets = {"spiral"}
  Steps = {0, 1, 2}
  LastEpoch = 5
INVARIANTS TypeOK NetworkWhole HistoryIsRun UnitsCoverHistory RunProgress
