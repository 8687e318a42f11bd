SPECIFICATION FairSpec
CONSTANTS
  MaxChannels = 2
  Clients = {t1, t2}
  Inputs <- MCInputs
  Outputs = {"o1", "o2"}
  Profiles <- MCProfiles
  Fresh <- MCFresh
  Nothing = Nothing
INVARIANTS
  TypeOK
  InputsDisjoint
  OutputsDistinct
  ShownIsOnDisk
  ConfirmedChannelsStay
PROPERTIES
  NoStartOnceClosing
  ServerStops
