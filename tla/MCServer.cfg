SPECIFICATION Spec
CONSTANTS
  None = None
  Whiteout = Whiteout
  Unsafe = Unsafe
INVARIANTS HistoryKept ResourcesHeld AnswersTrue DeliveredOnce GatesHold
PROPERTIES ImplementsFlat AnswersCome
CHECK_DEADLOCK FALSE
