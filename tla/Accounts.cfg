SPECIFICATION Spec
CONSTANTS
  root = root
  ann = ann
  Users = {root, ann}
  Root = root
  Listings = {{}, {root}}
  AdminLists = {{root}}
  Prunings = {TRUE}
  Participants = {ann}
  Handed = handed
  mine = mine
  handed = handed
  Passwords = {handed, mine}
  c1 = c1
  c2 = c2
  Clients = {c1, c2}
  Nobody = Nobody
CHECK_DEADLOCK FALSE
INVARIANT GateNeedsOwnPassword
INVARIANT AdminRemains
PROPERTY ChoicesOutliveStarts
SYMMETRY ClientSymmetry
