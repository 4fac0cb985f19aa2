CONSTANTS
  Addresses <- MCAddresses
  Domains = {"d", "e", "f"}
  DomainOf <- MCDomainOf
  Bounces = {b1, b2}
  NoDomain = "none"
  Panic = "panic"
  MaxOriginal = 3
  MaxRcpts = 2
  Ttl = 5
  MaxClock = 5
  MaxFailures = 1
  KeyOf <- MCKeyOf
  SpfListed = TRUE
  InitialPeriod = 1
  Validity = 3
  WhiteValidity = 4
  Never = Never
SPECIFICATION BouncesSpec
INVARIANTS RewrittenToForeignDomain LostOnlyIfForgotten PermittedOnlyIfWaited DeferralsBounded
SYMMETRY MCSymmetry
