SPECIFICATION Spec
CONSTANTS
  Users <- MCUsers
  NoUser = NoUser
  TooBig = TooBig
  Usual = Usual
  Texts <- MCTexts
  NameOf <- MCNameOf
  ListedAs <- MCListedAs
  Number <- MCNumber
  FoundBy <- MCFoundBy
  Registered = {1, 3}
  MaxCommands = 3
  MaxChanges = 1
INVARIANTS
  TypeOK
  SentAsMeant
PROPERTIES
  LookupsCached
CHECK_DEADLOCK FALSE
