SPECIFICATION Spec
CONSTANTS
  MAX_OBJECTS = 2
  SECTORS_PER_OBJECT = 2
  Name <- UserNames
  Stored <- StoredUser
  Content = {"program", "long"}
  Length <- MCLength
  BOOT_NAMES <- OneBootName
  BootContent = "program"
  BootWritable = {}
  Calls = {"create", "rename", "delete", "write", "promote", "reject"}
  Crashes = TRUE
  DiskFaults = FALSE
INVARIANTS DirectoryConsistent OwnData TrustEarned
PROPERTIES Implements
