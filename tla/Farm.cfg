\* Two farms, one after the other; each mishap can happen once.
SPECIFICATION FairSpec
CONSTANTS
  Workers <- TwoWorkers
  Jobs <- TwoThenOne
  JobLimit = 1
  LossLimit = 1
  SlowLimit = 1
  ChangeLimit = 1
INVARIANTS
  TypeOK
  OneFate
PROPERTIES
  RightTicket
  DoneOrAlone
