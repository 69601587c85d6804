SPECIFICATION ConversationSpec
CONSTANTS
  Texts <- MCTexts
  Alphabet <- MCAlphabet
  MaxWords = 3
  Declared <- MCDeclared
  Labels <- MCLabels
  Claims <- MCClaims
  MaxTurns = 3
  MaxFacts = 3
  MaxGoalChanges = 2
  MaxRestarts = 1
INVARIANTS Restorable ClauseBound QuestionsRephrased ClassifiedAsSaid
PROPERTIES SwitchesAreMeant
CHECK_DEADLOCK FALSE
