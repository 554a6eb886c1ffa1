SPECIFICATION Spec
CONSTANTS Clients = {c1, c2}
          NoClient = NoClient
          Fds = {3, 4, 5}
          Requests = {"OPTIONS", "SETUP_TCP", "SETUP_UDP", "PLAY", "TEARDOWN"}
          MaxRequests = 3
SYMMETRY Symmetry
INVARIANTS TypeOK NoGhostSessions MapMatchesHandler DescriptorsFaithful MediaOnlyToPlayers
CHECK_DEADLOCK FALSE
