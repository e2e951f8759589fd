\* One restart of the Manager leaves a job active that nothing works on.
SPECIFICATION Spec
CONSTANTS
    Jobs = {j1}
    None = None
    Percent = {10}
    MaxRestarts = 1
    MaxFaults = 0
INVARIANTS
    ActiveSurvivesRestart
