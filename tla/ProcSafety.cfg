SPECIFICATION Spec
CONSTANTS
    NPROC = 4
    CPUs = {c1, c2}
    MaxPid = 5
SYMMETRY CPUSymmetry
INVARIANTS StackSafe HasParent NoBlindSleep
