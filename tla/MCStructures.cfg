SPECIFICATION Spec
CONSTANT None = None
VIEW View
CHECK_DEADLOCK FALSE
INVARIANTS  SpaceSound  
PROPERTIES  AnswersExact
