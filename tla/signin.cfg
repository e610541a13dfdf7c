SPECIFICATION Spec
CONSTANTS
  c1 = c1
  c2 = c2
  ann = ann
  wei = wei
  w = w
  Clients = {c1, c2}
  Names = {ann, wei}
  Subjects = {w}
  WeChatName <- MCWeChatName
  AllowRegistration = FALSE
  Limit <- MCLimit
  Window <- MCWindow
  QRTTL = 0
  StateTTL = 0
  SessionTTL = 0
  QRKept = 0
  MaxClock = 1
  MaxIds = 6
SYMMETRY MCSymmetry
INVARIANTS TypeOK AccountsAreUnique RegisteredIsKept LockoutEnds
PROPERTY TicketsAreOneTime
