SPECIFICATION Spec
CONSTANTS
  STALE_AFTER_SLOTS_ELAPSED = 2
  U64_MAX = 99
  MinConfirmations = 2
  PythReports <- MCReports
  Answers <- MCAnswers
  MaxSlot = 2
INVARIANTS
  FreshPriceIsRecent
  FallbackWorks
  BotSeesTheSamePrice
