CONSTANTS
  Files = {f1, f2}
  Contents = {c1, c2}
  Sessions = {s1, s2}
  Tools = {v1, v2}
  Strategies = {"off", "default", "ref"}
  EditsDuringScan = FALSE
  MaxScans = 2
  MaxEvents = 2
  Gone = Gone
  NoEntry = NoEntry
  Corrupt = Corrupt
  Expired = Expired
  NotRead = NotRead
  Unreadable = Unreadable
  NoGit = NoGit
  NoTmp = NoTmp
  LostTmp = LostTmp
SPECIFICATION Spec
SYMMETRY Symmetry
INVARIANTS
  
  ReportIsCurrent
  ReportAccounts
  
