--------------------------- MODULE MCCacheKeyLock ---------------------------
(* Four callers of one key: an owner, two waiters and a later first caller. *)
EXTENDS CacheKeyLock

CONSTANTS t1, t2, t3, t4

MCTasks == {t1, t2, t3, t4}
=============================================================================
