SPECIFICATION Spec
CONSTANTS
  Names = {a, b}
  MaxRegistrations = 2
  MaxCodes = 3
  MaxFailures = 1
SYMMETRY Alike
INVARIANTS
  OneLiveToken
  OneRegistrationPerName
  OneOpenCode
  TicketPaysOnce
  FailureCostsNoTicket
  RevokedGetsNoneByCode
PROPERTIES
  RequestsGoForward
  TokensDieByRight
CHECK_DEADLOCK FALSE
