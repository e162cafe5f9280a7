SPECIFICATION Spec
CONSTANTS
  Manager = Manager
  Ground = Ground
  Classes = {"none", "stm32", "mcxn", "octavo"}
  CallsOf <- EveryCall
  MaxUpsets = 1
INVARIANTS CutStaysOff
PROPERTIES ImplementsCalls BootsAsAsked
