SPECIFICATION ChatSpec
CONSTANTS
  Product = {lamp, radio}
  NoProduct = NoProduct
  MaxPrompts = 3
  MaxProductChanges = 1
  MaxNewChats = 1
  MaxTools = 1
  MaxChatFaults = 2
INVARIANTS RunHasClient
CHECK_DEADLOCK FALSE
