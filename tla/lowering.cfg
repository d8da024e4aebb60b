CONSTANTS
  Programs <- MCPrograms
  Callers <- MCCallers
SPECIFICATION Spec
INVARIANT InStep
