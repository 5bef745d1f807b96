SPECIFICATION Spec
CONSTANTS
  Definitions <- MCDefinitions
  Wrap = 4
  Requests <- MCRequests
  MaxNesting = 2
INVARIANTS  AnswerNeedsConsent NemShowsWhatItSigns KeyIsTheStored CanonicalMosaics
