SPECIFICATION Spec
CONSTANTS
    Descriptors <- MCDescriptors
    W = 5
    Interval = 1
    Durations = {0, 1, 2}
    MaxEvents = 2
PROPERTIES DescriptorRight NoFlood SetIdleAnswered AllTold CatchesUp
