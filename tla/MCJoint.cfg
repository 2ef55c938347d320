\* Three datasets of which two must take part and one charges for itself; three parties with four lists and
\* one restart each; models of two and three parties; outputs of four values;
\* two readers of one result.
CONSTANTS
  e1 = e1  e2 = e2
  Parties = {d1, d2, d3}
  Submitter = s
  MinParticipants = 2
  Private = {d1}
  NoParty = none
  PartyCount = 3
  Lists <- MCLists
  MaxRestarts = 1
  Weights <- MCWeights
  Samples <- MCSamples
  Masks <- MCMasks
  PartySets <- MCPartySets
  Clip = 2
  Outputs <- MCOutputs
  MaxBytes = 3
  MaxStringBytes = 4
  MaxNumericValues = 1
  MaxKeys = 2
  MaxDepth = 2
  EntropyStringMinLen = 2
  MaxEntries = 2
  Readers = {k1, k2}
  Viewers = {u1, u2, u3, u4}
  Owner = u1
  DataOwner = u2
  Operator = u3
  Bytes = {x1, x2}
  NoBytes = nobytes
SPECIFICATION Spec
CHECK_DEADLOCK FALSE
INVARIANTS
  FederatedInv
  IntersectionInv
  AggregationInv
  GateInv
  
PROPERTIES
  FederatedSettles
