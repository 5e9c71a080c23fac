SPECIFICATION Spec
CONSTANTS
    n1 = n1
    n2 = n2
    n3 = n3
    Voters = {n1, n2, n3}
    Learners = {x}
    x = x
    Puts = {"p"}
    Swaps = {s1, s2}
    s1 = s1
    s2 = s2
    Barriers = {"b"}
    MaxBatch = 1
    Budgets <- MCBudgets
SYMMETRY Symmetric
CHECK_DEADLOCK FALSE
INVARIANTS
    AppliedAgree
    LeaderComplete
PROPERTIES
    ImplementsLog
