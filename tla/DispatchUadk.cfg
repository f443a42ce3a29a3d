\* Two threads; selections that are valid, the accelerator, and invalid ones.
SPECIFICATION Spec
CONSTANTS
    t1 = t1
    t2 = t2
    unset = unset
    Threads <- MCThreads
    Unset <- unset
    Envs <- MCEnvs
    Choices <- MCChoices
INVARIANTS
    DisabledIsTrue
