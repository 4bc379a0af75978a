SPECIFICATION FairSpec
CONSTANTS
  Servers <- LocalAndRelayed
  OfferOf <- Offers
  MaskOf <- Masks
  Targets <- Destinations
  Hosts = {150, 101}
  OtherLease = 130
  MaxOthers = 1
  MaxReplies = 2
  MaxConnects = 2
INVARIANTS LeaseHeld SynAddressed OneEntryPerHost NoWildRead
PROPERTY SetupEnds
