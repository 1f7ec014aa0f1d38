SPECIFICATION FairSpec
INVARIANT TypeOK
 
PROPERTY AckedEnterSucceeds
PROPERTY RealLeavePasses
PROPERTY LentEnds
CHECK_DEADLOCK FALSE
