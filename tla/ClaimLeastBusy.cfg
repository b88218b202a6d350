SPECIFICATION Spec
CONSTANTS
  t1 = t1  t2 = t2 t3 = t3  c1 = c1  a1 = a1  a2 = a2  m1 = m1  i1 = i1   q = q
  n1 = n1  s1 = s1  s2 = s2  s3 = s3
  NoUser = NoUser  NoImage = NoImage  NoTicket = NoTicket  NoNotice = NoNotice
  Tickets = {t1,t2,t3}
  Clients = {c1}
  Assessors = {a1, a2}
  Managers = {}
  TicketTeam = {a1,a2}
  ManagerOf <- Unmanaged
  QrOf <- AllQr
  Uploads = {}
  Notices = {}
  Slots = {s1}
  MaxPending = 2
  MaxProcessing = 2
  MaxMessages = 1
  MaxTimers = 0
  MaxFaults = 0
CHECK_DEADLOCK FALSE
PROPERTIES LeastBusyChosen
