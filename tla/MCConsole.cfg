CONSTANTS
  Accounts <- MCAccounts
  MaxChanges = 2
SPECIFICATION Spec
INVARIANTS
  ConsoleInv
  RefusedNeedsChange
