SPECIFICATION Spec
CONSTANTS
  MaxToStore = 2
  StackSize = 60
  Code <- ConstCode
  Meanings <- ConstMeanings
  Inputs <- ConstInputs
INVARIANTS Agrees ScopesMatch Asserts
PROPERTY ReturnsClose
