SPECIFICATION Spec
CONSTANTS
  Clients = {c1, c2}
  Emails <- MCEmails
  Normalize <- MCLower
  Lower <- MCLower
  Passwords = {p1, p2}
  NoUser = NoUser
  NoPassword = NoPassword
SYMMETRY Symmetry
INVARIANT TypeOK
INVARIANT AdmittedIsVerified
PROPERTY IssuedToItsUser
PROPERTY NotTurnedAway
PROPERTY RegistrationOnlyAdds
