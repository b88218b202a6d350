SPECIFICATION FairSpec
CONSTANTS
  t1 = t1  t2 = t2 t3 = t3  c1 = c1  a1 = a1  a2 = a2  m1 = m1  i1 = i1   q = q
  n1 = n1  s1 = s1  s2 = s2  s3 = s3
  NoUser = NoUser  NoImage = NoImage  NoTicket = NoTicket  NoNotice = NoNotice
  Tickets = {t1}
  Clients = {c1}
  Assessors = {a1, a2}
  Managers = {}
  TicketTeam = {}
  ManagerOf <- Unmanaged
  QrOf <- FirstQr
  Uploads = {i1}
  Notices = {}
  Slots = {s1}
  MaxPending = 1
  MaxProcessing = 1
  MaxMessages = 1
  MaxTimers = 2
  MaxFaults = 1
PROPERTIES TimerCloses
CHECK_DEADLOCK FALSE
