SPECIFICATION Spec
CONSTANTS
  Callers <- MCCallers
  Users = {u1}
  Emails <- MCEmails
  Githubs = {"g1"}
  Accounts = {root, acc}
  MailOwner <- MCMailOwner
  GitOwner <- MCGitOwner
  GitEmails <- MCGitEmails
  Founder = "ops"
  Root = root
  ScopeSets <- MCScopeSets
  None = None
INVARIANTS
  SessionsAreOwned
  PowersAreGiven
