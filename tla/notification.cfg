SPECIFICATION FairSpec
CONSTANTS
  Lengths = {1, 3, 4, 5, 9}
  FixedLength = 1
  None = None
  _MAX_MESSAGE_LENGTH = 8
  _MAX_RETRIES = 3
INVARIANTS
  TypeOK
  TruncationIsMinimal
  RetriedOnlyWhenUnsettled
PROPERTY NotificationEnds
CHECK_DEADLOCK FALSE
