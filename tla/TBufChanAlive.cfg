SPECIFICATION Spec
CONSTANTS
    Data = {d1, d2}
    NoData = NoData
    max_buffer_times = 2
    MaxRest = 2
    MaxFrames = 2
INVARIANT AliveMeansOpen
