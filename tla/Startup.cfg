SPECIFICATION FairSpec
CONSTANTS
  Call = {"set_kad_enabled", "set_mdns_enabled", "dial_1", "dial_2", "dial_3", "dial_4", "dial_5", "kad_bootstrap", "kad_find_peer", "add_target_1", "add_target_2"}
  Fallible = {"set_mdns_enabled", "dial_1", "dial_2", "dial_3", "dial_4", "dial_5", "kad_bootstrap"}
  TaskCalls = {"dial_1", "dial_2", "kad_find_peer"}
  Capacity = 2
INVARIANTS
  TypeOK
  NoLateEffect
  HandlersComplete
  MainStaysUp
PROPERTIES
  ImplementsAtomicCalls
  CallsEnd
  SwarmServed
  SignalEndsMain
  DropEndsTask
CHECK_DEADLOCK FALSE
