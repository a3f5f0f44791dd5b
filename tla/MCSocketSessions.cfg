CONSTANTS
  Tabs = {t1}
  Sockets = {s1, s2, s3}
  MaxTrouble = 2
  None = None
SPECIFICATION FairSpec
INVARIANTS TypeOK SubscriptionsAgree
PROPERTIES PresenceComesFirst SettlesOrStrays
CHECK_DEADLOCK FALSE
