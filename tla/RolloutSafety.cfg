SPECIFICATION Spec
CONSTANTS
  Campaigns = {1}
  Devices = {d1, d2, d3}
  Firmwares = {f1}
  Requests = {r1, r2}
  Percents = {1, 34, 100}
  Interruptible = {r1, r2}
  None = None
SYMMETRY Symmetry
INVARIANTS TypeOK CompletedAllTerminal PristineUntilActive NoLostCompletion
PROPERTIES ProgressMonotone ImplementsLifecycle
