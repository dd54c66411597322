CONSTANT Inputs <- PageInputs
SPECIFICATION Spec
INVARIANTS
  OutputBehindInput
  ShownAsWritten
