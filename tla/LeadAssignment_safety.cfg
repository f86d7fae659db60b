CONSTANTS
  Experts = {e1, e2}
  Leads = {l1, l2}
  Tasks = {t1, t2}
  NoExpert = NoExpert
  NoLead = NoLead
  Admin = Admin
  MaxOpen = 1
  Preferred = {NoExpert, e1}
SPECIFICATION AssignmentSpec
SYMMETRY MCSymmetry
INVARIANTS
  AssignmentTypeOK
  OvershootIsBounded
  OnlyOwnerIsTold
PROPERTY
  OwnedIsNotTaken
