SPECIFICATION FairSpec
CONSTANTS
  Callers <- MCTwo
  LockUse = {TRUE, FALSE}
  MaxEvents = 3
  Nobody = Nobody
INVARIANTS TypeOK LockedResponse AppResponse
PROPERTIES ServesCommands EventStays CommandsReturn EventsHandled
