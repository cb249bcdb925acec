SPECIFICATION Spec
CONSTANT MaxJobs = 2
INVARIANTS EarsOpen RestIsAwaited
PROPERTIES  HeardUnlessMuted
