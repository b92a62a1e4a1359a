SPECIFICATION Spec
CONSTANTS
  MAX_OBJECTS = 4
  SECTORS_PER_OBJECT = 2
  Name <- LongNames
  Stored <- StoredLong
  Content = {"program"}
  Length <- MCLength
  BOOT_NAMES <- MCBootNames
  BootContent = "program"
  BootWritable <- MCBootWritable
  Calls = {"create", "rename", "delete"}
  Crashes = TRUE
  DiskFaults = TRUE
INVARIANTS UniqueNames BootIds
