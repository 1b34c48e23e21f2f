SPECIFICATION Spec
CONSTANTS
  UserIDs = {u1, u2}
  Emails = {e1, e2}
  Passwords = {pw1, pw2}
  ProviderIDs = {x1}
  Requests = {r1, r2}
  NoUser = NoUser
  NoEmail = NoEmail
  NoPassword = NoPassword
  NoProviderID = NoProviderID
SYMMETRY Symmetry
INVARIANT
  PasswordResetSticks
