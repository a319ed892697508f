\* Two peers behind one address, one with the private password and so a slot of its
\* own; a NAT that gives each a second port; one restart of each program.
SPECIFICATION FairSpec
CONSTANTS
  Peers = {1, 2}
  Vips = {1}
  MaxClients = 2
  Private = 1
  Timeout = 2
  ZombieTime = 1
  ReconnectLimit = 2
  Grace = 1
  Hitch = 2
  Ports = 2
  MaxRestarts = 1
INVARIANT RoutedToSession
INVARIANT SlotSound
PROPERTY NoReplay
PROPERTY NoHastyTimeout
PROPERTY GhostsTold
