SPECIFICATION Spec
CONSTANTS
  Sessions = {s1, s2}
  None = None
  MaxAnalyses = 2
  MaxQuestions = 1
SYMMETRY Symmetry
INVARIANTS TypeOK  AnswerFitsQuestion
CHECK_DEADLOCK FALSE
