SPECIFICATION WorkplaceSpec
CHECK_DEADLOCK FALSE
CONSTANTS
  Workers = {w1, w2}
  None = None
  People = {p1, p2}
  p1 = p1
  Uids = {u1, u2}
  LastInstant = 2
  Offsets = {0, 1}
  DayLength = 2
  MinuteLength = 2
  MonthLength = 1
  AttModes <- MCAttModes
  FieldIds = {f1, f2, f3}
  f1 = f1
  f2 = f2
  f3 = f3
  LastDate = 2
  MaxBalance = 2
  FormModes <- MCFormModes
  r1 = r1
  Recipients = {r1, r2}
  Sockets = {s1, s2}
  OwnerOf <- MCOwnerOf
  NoticeIds = {n1, n2}
  LastRead = 2
  NoticeModes <- MCNoticeModes
  c1 = c1
  c2 = c2
  c3 = c3
  Correspondents = {c1, c2, c3}
  Ranks = {1, 2, 3}
  LastSent = 3
  MessageModes <- MCMessageModes
  a1 = a1
  AnnouncementIds = {a1, a2}
  Viewers = {v1, v2}
  FileIds = {f1, f2}
  LastMoment = 2
  AnnouncementModes <- MCAnnouncementModes
  s1 = s1
  s2 = s2
  Crews = {c1, c2}
  Leads = {r1, r2}
  ObjectiveIds = {o1, o2}
  PerfDays = {0}
  Targets = {3}
  Achievements = {2}
  PerfModes <- MCPerfModes
  Assignees = {a1, a2}
  LastTask = 3
  DueDates = {0}
  Priorities = {"low", "high"}
  ListLimits = {1, 2}
INVARIANTS
  AttendanceInv
  FormInv
  LeaveInv
  DeliveryInv
  ConversationInv
  RecipientInv
  FeedInv
  AttachmentInv
  PerfInv
  TaskInv
PROPERTIES
  CardsKeepTheirOwner
  ReportsAddUp
  PublishesEnd
  ResultMeetsObjective
