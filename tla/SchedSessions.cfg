SPECIFICATION Spec
CONSTANTS
  MaxSlots = 3
  Priorities <- MCPriorities
  MaxCreates = 5
INVARIANTS RegistryExact NoSlotLost
PROPERTIES DeadStaysDead
