\* Both versions on one network, identifiers that may repeat.  Two servers
\* say HELLO every third tick; poll waits one tick.
SPECIFICATION FairSpec
CONSTANTS
  NewServers = {s1}
  OldServers = {o1}
  NewClients = {c1}
  OldClients = {d1}
  Ids = {1, 2}
  Types = {1}
  HelloInterval = 3
  Timeout = 1
  MaxQueries = 2
  MaxFaults = 1
INVARIANTS TypeOK AnswersOwnQuery AllServersShown
PROPERTIES  OldClientsReturn
