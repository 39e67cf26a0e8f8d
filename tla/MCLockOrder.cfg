SPECIFICATION Spec
CONSTANTS
  Readers <- MCReaders
  Writers <- MCWriters
  Publishers <- MCPublishers
  MaxRunning = 3
INVARIANTS
  NoCircularWait
