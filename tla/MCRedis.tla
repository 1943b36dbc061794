------------------------------ MODULE MCRedis ------------------------------
(* Small instances of RedisClient: two IO threads *)
EXTENDS RedisClient

CONSTANTS t1, t2, alice
============================================================================
