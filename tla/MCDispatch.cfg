CONSTANTS
  text = text
  file = file
  image = image
  phone = phone
  hello = hello
  report = report
  picture = picture
  NoRequest = NoRequest
  NoAnswer = NoAnswer
  Request <- MCRequest
  Phone = {phone}
  Kind <- MCKind
  Content <- MCContent
  Contains <- MCContains
  QueueSize = 1
  SentSize = 1
  HasEngine = TRUE
  Outlasts = 2
  MaxBegun = 2
SPECIFICATION FairSpec
INVARIANTS TypeOK EchoConfirms ConfirmedByDatabase FileThereForActor
PROPERTIES RequestsAnswered TempFilesRemoved
CHECK_DEADLOCK FALSE
