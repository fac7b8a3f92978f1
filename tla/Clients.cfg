SPECIFICATION Spec
CONSTANTS
  Wait = 2
  Tries = 2
  MaxCodes = 2
  MaxMade = 2
  Nobody = "nobody"
  PhoneAccounts = {"ann"}
  PhonePairs = 3
  PhoneAsks = {"page", "save", "logout", "end"}
  ConsoleAccounts = {"owner", "admin"}
  ConsolePairs = 2
  Tabs = {1, 2}
  MaxBookings = 2
  Last = 2
  MaxPicked = 2
  MaxInbox = 1
  Arenas = {"a", "b"}
  Taps = {1, 2}
  Editors = {"admin"}
  Sections = {"general", "email"}
  MaxEdits = 1
  Pages <- AllPages
  Operations <- AllOperations
  Reads <- AllReads
  Lagging <- AllLags
  Unchecked <- AllUnchecked
  OneAtATime = {"owner", "admin"}
CONSTRAINT Few
INVARIANTS
  TypesOK
  NoSelfReuse
  LetInAlone
  AlarmHasCause
  OwnTimeNotLost
  EndScreensAgree
  OutageIsCaughtUp
  SelectionStands
  HeartsAreLikes
  OwnChangeShows
  OnlyOldRowsRefused
PROPERTIES
  LatePairIsDead
  ReadyLinkIsServed
  SurvivePatience
CHECK_DEADLOCK FALSE
