SPECIFICATION Spec
CONSTANTS
  wechat = wechat
  xianyu = xianyu
  v1 = v1
  v2 = v2
  Platforms = {wechat, xianyu}
  WeChat = wechat
  Values = {v1, v2}
  None = None
  Messages <- Texts
  Shots <- ShotFields
  Recent = 2
  MaxMessages = 3
CHECK_DEADLOCK FALSE
INVARIANTS
  ShortOrderIsDispatched
  DispatchIsActionable
  UncheckedDispatch
