SPECIFICATION Spec
CONSTANTS
  full = full
  bare = bare
  person = person
  cron = cron
  NoProfile = NoProfile
  Calls = {person, cron}
  Attended = {person}
  Offered <- MCOffered
  Profiles = {full, bare}
  Has <- MCHas
  Moved = {bare}
  Pages = 2
  MaxSwitches = 1
INVARIANTS
  NothingUnconfirmed
  StatusTellsEffect
  OneProfile
  NothingOverwrittenUnseen
PROPERTIES
  UnattendedEnds
CHECK_DEADLOCK FALSE
