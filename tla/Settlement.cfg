SPECIFICATION Spec
CONSTANTS
  i1 = i1  i2 = i2  d1 = d1  d2 = d2  m1 = m1  a1 = a1  a2 = a2
  OffChain = OffChain  NoNumber = NoNumber
  Setups <- SoundSetups
  Portfolio = {0, 1}
INVARIANTS StatusMirrorsChain SingleHoldingsMirrorChain MediatorsMirrorChain AffirmationHasParty  PartyListsPortfolios InstructionKnown
CHECK_DEADLOCK FALSE
