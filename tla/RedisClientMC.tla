---------------------------- MODULE RedisClientMC ----------------------------
EXTENDS RedisClient

=============================================================================
