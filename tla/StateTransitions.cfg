CONSTANTS
  o1 = o1
  o2 = o2
  o3 = o3
  Outpoints <- MCOutpoints
  Credits <- MCCredits
  Keys = {k1, k2}
  Fees = {1, 2}
  None = None
  FixedHeights = {2, 3}
  DpnsContract = o1
  DpnsHeight = 1
  MaxHeight = 3
SPECIFICATION Spec
INVARIANTS
  CreditsConserved
  NoDebt
  KeysAgree
  CreatedAreNew
PROPERTIES
  TakenStaysTaken
