\* One task with two mailboxes: mail that select does not see.
CONSTANTS
  app = app  file = file  p = p  q = q
  Nobody = Nobody  NoId = NoId
  Tasks = {app}
  Posters = {p}
  Size <- JustTwo
  MaxId = 4
  MailLimit = 1
SPECIFICATION Spec
INVARIANT NoSleepOnMail
CHECK_DEADLOCK FALSE
