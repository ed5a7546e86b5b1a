---------------------------- MODULE MCRpcDriver ----------------------------
EXTENDS RpcDriver, TLC
Sym == Permutations(Threads)
=============================================================================
