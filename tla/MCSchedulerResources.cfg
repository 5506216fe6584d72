CONSTANTS
    WorkerCount = 3
    OccurrenceMax = 4
SPECIFICATION Spec
INVARIANTS OwnershipExact NothingFreedInUse OwnedInState FaultStrikesOnce
