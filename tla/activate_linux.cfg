SPECIFICATION Spec
CONSTANTS
  Scales = {2}
  MaxAnnounced <- Announcements
  MaxPreferred = 1
  MaxConfigured = 2
  MaxNotices = 1
  TextSize <- Texts
INVARIANT TypeOK
INVARIANT NoFault
INVARIANT NoPanic
INVARIANT PictureFollowsConfigure
INVARIANT Growth
PROPERTY Shows
CHECK_DEADLOCK FALSE
