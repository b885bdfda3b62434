SPECIFICATION Spec
CONSTANTS
  Venue = {v1}
  Signer = {s1, s2, s3}
  Owner = {o1}
  Text = {t1, t2}
  MaxNumber = 2
  Name = {n1, n2}
  NoName = NoName
  Custodian = {c1}
  NoCustodian = NoCustodian
  Admin = {d1, d2}
  Pip = {p1, p2}
  Voter = {w1, w2}
  MaxWeight = 2
  Target = {d1, d2}
  Issuer = {j1, j2}
  Kind = {k1}
  Scope = {x1}
  NoScope = NoScope
  Did = {d1, d2}
  NoDid = NoDid
  Fixed = {full}
  Custom = {g1, g2}
  Perms = {q1, q2}
  NoGroup = NoGroup
  Nft = {a, b, c}
  Tx = {y1, y2}
  ConfAsset = {x1, x2}
  ConfAccount = {e1}
  ConfVenue = {f1, f2}
  MaxConfSupply = 1
  Proposal = {p1, p2}
  Spec0 = 6
  SpecLast = 8
  Ticker = {t1}
  Asset = {a1}
  NoAsset = NoAsset
  MaxEvents = 5
  Payer = {a1, a2}
  Treasury = Treasury
  NoOne = NoOne
  Committee = Committee
  Amount = {5, 9}
  TxFee = {8}
  MaxMoves = 3
  Entity = {e1, e2}
  Value = {1, 2}
  CustomId = {u1}
  BuiltIn = {}
  MaxIssued = 2
  Sto = {f1}
  NoEnd = NoEnd
  MaxTime = 3
  Data = {q1, q2}
  Trusted = {j1}
  MaxId = 3
  PageSize = 2
  ShortPage = 1
  Dist = {u1, u2}
  Benefit = {1, 3}
  TaxRate = {0, 5}
  Million = 10
  GcDid = {g1}
  SystemDid = {z1}
  Key = {k1, k2, k3}
  NoKey = NoKey
  MultiSig = {m1, m2}
  GenesisSigner = {s1}
INVARIANTS VenueSignersSound PortfoliosMirrorChain SignersMirrorChain ProposalsMirrorChain WeightsMatchVotes SoleClaimsMirrorChain AgentsSound NftsMirrorChain PendingExplained ConfidentialMirrorsChain TickersMirrorChain MovesTold  OfferingsMirrorChain ComplianceMirrorsChain DistributionsAddUp GenesisImported
CHECK_DEADLOCK FALSE
