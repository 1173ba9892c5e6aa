SPECIFICATION Spec
CONSTANTS
  Meetings <- MCMeetings
  Environments <- MCEnvironments
  Presses = {1, 2}
  MaxVersion = 3
INVARIANTS OwnChangeShown ErrorHidesNothing MadeOnce SavesOnTop
PROPERTIES EditsSurvive OwnChangeAppears
CHECK_DEADLOCK FALSE
