\* A site admin, a group admin and a user with two requests; two calls at a time.
SPECIFICATION Spec
CONSTANTS
  site = site
  lead = lead
  guest = guest
  r1 = r1
  r2 = r2
  Users = {site, lead, guest}
  SiteAdmins = {site}
  Requests = {r1, r2}
  Calls = {k1, k2}
  Asks <- EveryAsk
  NoRow = NoRow
SYMMETRY Symmetry
INVARIANTS TypeOK MembersAreExplained
PROPERTIES DecisionIsFinal LastAdminGuarded
