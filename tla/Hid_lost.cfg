SPECIFICATION Spec
CONSTANTS
    Descriptors <- MCDescriptors
    W = 5
    Interval = 1
    Durations = {0, 1, 2}
    MaxEvents = 2
INVARIANT ChangeStaysPending
