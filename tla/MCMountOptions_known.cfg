SPECIFICATION Spec
CHECK_DEADLOCK FALSE
CONSTANTS
  Absent = "-"
  Texts <- MCTexts
  Requests <- CacheRequests
  Atoi <- MCAtoi
  WithScheme <- MCWithScheme
  SplitAtCommas <- MCSplitAtCommas
  CredFiles <- MCCredFiles
  PasswdFile = "/var/lib/coscsi-config/pod"
  DefaultIAM = "https://iam"
  TLSCipherSuite = "AESGCM"
INVARIANTS
  KnownToService
