------------------------------ MODULE MCRateLimit ------------------------------
(* Three buckets of two scopes, one of them misconfigured.  The map is large  *)
(* with the two others in it, and a bucket refills in less than IdleEvictMs.   *)
EXTENDS RateLimit

CONSTANTS mentions, login, broken

MCBuckets == {mentions, login, broken}
MCCapacity == [b \in MCBuckets |-> IF b = mentions THEN 2 ELSE IF b = login THEN 1 ELSE 0]
MCWindow == [b \in MCBuckets |-> IF b = mentions THEN 3 ELSE 2]
=============================================================================
