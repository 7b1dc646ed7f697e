SPECIFICATION Spec
CONSTANTS
m1=m1 m2=m2 m3=m3 u1=u1 u2=u2 fd=fd wk=wk w1=w1 w2=w2 NoUser=NoUser p1=p1 p2=p2 g1=g1 g2=g2 gn=gn i1=i1 c1=c1 c2=c2 q1=q1 q2=q2
  Messages <- TwoMessages
  Fanout <- DeskThenWorker
  Engage <- StickyDesk
  Accumulates <- OnlyDesk
  UserScoped <- OnlyWorker
  Mentions <- FirstMentions
  Sender <- OneSender
  Refused <- SecondRefused
  Command <- NoCommand
  Claimed <- NoneClaimed
  MaxTrouble = 2
  MaxReplays = 1
  People <- TwoPeople
  Groups <- TwoGroups
  NewGroup = gn
  Orgs <- OrgGroup
  Foreign <- ForeignGroup
  Slots <- TwoSlots
  MaxMessages = 1
  MaxRegTrouble = 1
  Installs <- OneInstall
  Credentials <- TwoCredentials
  MaxPackages = 1
  MaxCardClicks = 2
  MaxCardTrouble = 2
  Questions <- TwoQuestions
  Users <- TwoUsers
  Owner <- FirstOwnsAll
  MaxSends = 2
  MaxReplies = 2
  MaxAskTrouble = 2
  Members <- TwoPeople
  NoMember = NoMember
  Events <- FiveEvents
  EventOf <- WhatHappens
  Seats <- TwoSlots
  Configs <- BothOrLong
  MaxCopies = 2
  MaxOpen = 2
  MaxEventTrouble = 1
  Jobs <- ThreeJobs
  Text <- WhatToSend
  MemberPage = 2
  GroupPages = 3
  PageBudget = 2
  MaxTries = 2
  MaxApiTrouble = 2
  Desks <- TwoDesks
  Workers <- OneWorker
  Chats <- OneChat
  Frontdesk = fd
  Child = gn
  MaxScripts = 2
  MaxTopologyTrouble = 1
  MeshGroups <- MeshThree
  Companies <- TwoCompanies
  RootMode <- RootWorker
  EntryDesk = fd
  SpawnCap = 2
  MaxLanes = 4
  MaxMail = 4
  MaxAdmin = 1
CHECK_DEADLOCK FALSE
INVARIANT InboundAccounted
 
 
INVARIANT AnswersArrive
INVARIANT EventsHonoured
INVARIANT SendsHonest
 
INVARIANT UsersApart
PROPERTY ExpiredStaysDead
