CONSTANTS
  h1 = h1  h2 = h2  e1 = e1  e2 = e2  e3 = e3  e4 = e4
  m1 = m1  m2 = m2  m3 = m3  m4 = m4  ann = ann  bob = bob  cy = cy
  Night = Night  NoSource = NoSource  NoPair = NoPair
  Sources <- ThreeSources
  Messages <- FourMails
  Of <- MailOf
  Before <- EarlierMail
  Dropped <- ListMail
  Persons <- AllPersons
  Internal <- Colleagues
  People <- MailPeople
  Handlers <- TwoHandlers
  Aging <- OldMail
  MaxFaults = 1
SPECIFICATION FairSpec
INVARIANTS OncePerMessage AckedIsProcessed ScoresAreComplete
PROPERTIES NightRepairs
CHECK_DEADLOCK FALSE
