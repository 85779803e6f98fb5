CONSTANTS
  c1 = c1
  c2 = c2
  c3 = c3
  Server = Server
  None = None
  Me = 1
  Clients <- ThreeClients
  StartIds <- SomeIds
  Files <- SomeFiles
  HostOf <- SomeHosts
  PortOf <- OwnPorts
SPECIFICATION Spec
INVARIANTS ConfigsAgree ChannelsLeadToTheirParty
PROPERTIES EveryoneGetsANetwork
