SPECIFICATION TextSpec
CONSTANTS
  MinYear = 2015
  MaxYear = 2027
  FirstWeekday = 3
  Policy = "nearest_previous"
  PartHour <- MCPartHour
  Refs <- MCRefs
  Asked <- MCQuestions
  Spoken <- MCTurns
  Forms = {"marker", "bracket", "end", "phrase"}
  Invented <- MCInvented
  MaxNamed = 3
INVARIANTS LaterReferenceLaterRange NameAndRangeAgree OnlyExpressionsChange GraphNamesAreAbsolute
CHECK_DEADLOCK FALSE
