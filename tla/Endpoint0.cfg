SPECIFICATION Spec
CONSTANTS
  Builds <- MCBuilds
INVARIANTS ConfigurationDescribed LengthsAddUp StreamsCarried RequestsDispatched DriversBound HostActiveTold
