SPECIFICATION KSpec
CONSTANTS
  t1 = t1
  t2 = t2
  t3 = t3
  q1 = q1
  s1 = s1
  m1 = m1
  None = None
  Task = {t1, t2, t3}
  Queue = {q1}
  Sem = {s1}
  Msg = {m1}
  Prio <- MCPrio
  QSize <- MCQSize
  SemMax = 1
  IntQSize = 2
  NestMod = 2
  IsrPosts <- MCIsrPosts
INVARIANTS
  KTypeOK
  PendListExact
  PendListSorted
  NoLostWakeup
  HolderRuns
