CONSTANTS
  t1 = t1
  t2 = t2
  Trackers = {t1, t2}
  Workers = {1, 2}
  Byte <- VerbsAndMarks
  Zero = "0"
  CRLF = "CRLF"
  SendRoom = 6
  Room = 3
  Answer = 9
  Cuts = {1}
  AnswerCuts <- OneAnswerCut
SPECIFICATION FairSpec
INVARIANTS SessionSound
PROPERTIES BecomesActive
CHECK_DEADLOCK FALSE
