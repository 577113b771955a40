SPECIFICATION Spec

CONSTANTS
  P = 2
  Slots = 1
  MaxTicks = 2

INVARIANTS
  OutcomeIsPublished

PROPERTIES
  ProfileIsHonest
  ObserverReturns

\* An observer that has returned observes nothing more.
CHECK_DEADLOCK FALSE
