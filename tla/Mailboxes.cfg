\* Two tasks, a poster, and numbers that come round.  Tasks may rest.
CONSTANTS
  app = app  file = file  p = p  q = q
  Nobody = Nobody  NoId = NoId
  Tasks = {app, file}
  Posters = {p}
  Size <- TwoAndOne
  MaxId = 4
  MailLimit = 1
SPECIFICATION FairSpec
INVARIANTS TypeOK SelectFindsMail NoDangling OneOwner ArmedWakes
PROPERTY SenderGoesOn
CHECK_DEADLOCK FALSE
