SPECIFICATION Spec
CONSTANTS
  t1 = t1
  t2 = t2
  k1 = k1
  r1 = r1
  Tasks = {t1}
  Clients = {k1}
  Readers = {}
  MaxTasks = 1
  MaxDrops = 0
  MaxCrashes = 0
PROPERTY CancelingNeverCompletes
