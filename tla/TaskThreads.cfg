CONSTANTS
    Jobs = {j1, j2, j3}
    Calls = {c1, c2}
    NoJob = NoJob
    NoCall = NoCall
    concurrent_num = 2
SPECIFICATION FairSpec
INVARIANTS WokenWhenOwed JobsAccounted
PROPERTIES KeepsItsPromise JobsAreCalled
