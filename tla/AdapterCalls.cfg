SPECIFICATION FairSpec
CONSTANTS
  r1 = r1
  r2 = r2
  r3 = r3
  Call = {r1, r2, r3}
PROPERTIES
  StaleTicketRenewed
  ImplementsCall
