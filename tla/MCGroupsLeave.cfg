\* The two admins of a group leave at the same time.
SPECIFICATION Spec
CONSTANTS
  site = site
  lead = lead
  guest = guest
  r1 = r1
  r2 = r2
  Users = {site, lead}
  SiteAdmins = {site}
  Requests = {r1}
  Calls = {k1, k2}
  Asks <- LeaveAsks
  NoRow = NoRow
PROPERTY LastAdminCannotLeave
