SPECIFICATION FairSpec
CONSTANTS
  Players = {p1, p2}
  Looping = {p1}
  Nobody = Nobody
  Client = Client
  MaxBacklog = 2
INVARIANTS
  TypeOK
  InitedBeforeUse
  ContextIsOwned
  OnlyOthersAreLate
  OnlyRestartsDeadlock
PROPERTIES
  MailSpec
  MailServed
  QuitIsKept
  QuitEndsTheThread
