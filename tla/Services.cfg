CONSTANTS
 Secretive={j1}
 Delivery={d1,d2}
 Writer={p1,p2,p3}
 MaxSize=1
 Allowed={0,2}
 Call={p1,p2,p3}
 PerMinute={0,1}
 MaxTime=5
 MaxRetries=1
 Attempts={1,2}
 Depth=2
 MaxPictures=1
 MaxHidden=2
 Request={q1,q2}
 Connection={p1,p2,p3}
 Skew=1
 Ttl=3
 MaxNonces=2
 MaxClock=6
 Parts=2
 MaxAnswers=2
 Clerk={k1,k2}
 Person={u1,u2}
 SessionTtl=2
 StateTtl=1
 LastTick=2
 MaxEvents=2
SPECIFICATION Spec
INVARIANTS TypeOK OneUse SecretGone RateHeld RefusalExplained PublishedIsWhole BoundaryAgrees NothingLost PermitsReturn ArchiveTold SessionIsSignIn OneSessionPerLogin
PROPERTIES QuotaHeldToCommit OwnLiveFile RetryIsNoDetour ListingUnbroken WorkedOnOnce
SYMMETRY Symmetry
CHECK_DEADLOCK FALSE
