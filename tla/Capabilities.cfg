\* Two threads that hold, run, verify and close both directories while another
\* program changes them.
SPECIFICATION FairSpec
CONSTANTS
    Threads = {t1, t2}
    NoThread = none
PROPERTIES
    NothingAfterBreach
    UsedAlone
    EveryCallReturns
