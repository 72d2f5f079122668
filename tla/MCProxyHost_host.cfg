SPECIFICATION HostSpec
CONSTANTS
  c1 = c1
  k1 = k1
  k2 = k2
  gui = gui
  Clients <- OneClient
  Conns <- TwoConns
  Threads <- TheThreads
  Values <- TheLists
  Default <- EmptyList
  Gui = gui
  Miss = Miss
  MaxLoops = 2
INVARIANTS
  HostTypeOK
  AdvertisedIsServed
  SavedListIsObeyed
