SPECIFICATION Spec
CONSTANTS
  folder = folder
  share = share
  extra = extra
  admin = admin
  group = group
  service = service
  write = write
  list = list
  everyoneFull = everyoneFull
  everyoneRead = everyoneRead
  adminsFull = adminsFull
  member = member
  account = account
  system = system
  Resources = {folder, share, extra, admin, group, service}
  Values = {write, list, everyoneFull, everyoneRead, adminsFull, member, account, system}
  Kind <- MCKind
  Mentions <- MCMentions
  Hidden = {admin}
  LocalSystem = system
  AdminGroups = {}
  OperatorGroups = {}
  Images <- MCImages
  Worlds <- MCWorlds
  ArgsFirst = {FALSE}
  MaxChanges = 0
  MaxFaults = 0
INVARIANT
  GroupMembersAreAudited
