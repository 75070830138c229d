\* Two renewals, for the old or for a new key.
CONSTANT MaxRenewals = 2
SPECIFICATION FairSpec
INVARIANT
    RefusesForAReason
PROPERTY
    RenewalIsServed
