SPECIFICATION Spec
CONSTANTS
  order = order
  foreign = foreign
  untargeted = untargeted
  check = check
  group = group
  customer = customer
  stranger = stranger
  e1 = e1
  e2 = e2
  Executors = {e1, e2}
  Nobody = Nobody
  Tasks <- OneTask
  Action <- ActionOf
  Override <- OverrideOf
  Uid <- UidOf
  Nothing = Nothing
  Registry <- WechatActions
  Chats = {group, customer}
  NoChat = NoChat
  SlowHandlers = FALSE
  MaxCalls = 2
  MaxFaults = 0
SYMMETRY Symmetry
CHECK_DEADLOCK FALSE
INVARIANTS
  SentToTarget
