SPECIFICATION Spec
CONSTANTS
  school = school
  north = north
  south = south
  founder = founder
  head = head
  newcomer = newcomer
  Admin = Admin
  Head = Head
  Aide = Aide
  Extra = Extra
  p1 = p1
  p2 = p2
  p3 = p3
  p4 = p4
  p5 = p5
  p6 = p6
  p7 = p7
  None = None
  Units = {school, north, south}
  Subtree <- Below
  People = {founder, head, newcomer}
  Roles = {Admin, Head, Aide, Extra}
  Capabilities = {"assignment.create", "assignment.delete", "grant.update", "person.create",
                  "person.delete", "person.import", "role.create", "role.delete", "results.read"}
  FirstGrants <- Grid
  FirstPosts <- Posts0
  FirstRoles = {Admin, Head, Aide}
  Bodies <- Saves0
  By <- HeadAssigns
  Assigners = {p1}
  Importers = {p2}
  Removers = {p5}
  Leavers = {p6}
  Makers = {p7}
  RoleDeleters = {p3}
  Savers = {p4}
  Terms = {head}
  MaxRequests = 2
INVARIANTS
  ReadingsAgree
PROPERTIES
  PowersAreBounded
  HoldersAreMoved
  SavesKeepAnEditor
CHECK_DEADLOCK FALSE
