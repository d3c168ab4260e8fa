----------------------------- MODULE MCTxnStore -----------------------------
(***************************************************************************)
(* TxnStore on small instances: the request menus of the runs.             *)
(***************************************************************************)
EXTENDS TxnStoreRefine, TLC

CONSTANTS a, b, t1, t2, t3

Put(k) == [type |-> "put", key |-> k]
Delete(k) == [type |-> "delete", key |-> k]
Get(k, r) == [type |-> "get", key |-> k, rev |-> r]
List(ks, r) == [type |-> "list", range |-> ks, rev |-> r]

Always(ops) == [compare |-> {}, success |-> ops, failure |-> <<>>]
IfMod(k, r, ops, else) ==
  [compare |-> {[target |-> "MOD", key |-> k, value |-> r]},
   success |-> ops, failure |-> else]
IfVersion(k, v, ops, else) ==
  [compare |-> {[target |-> "VERSION", key |-> k, value |-> v]},
   success |-> ops, failure |-> else]

\* Kubernetes-shaped traffic on one key: create, conditional update, delete,
\* and the reads that race with them.
KubeRequests ==
  {IfMod(a, 0, <<Put(a)>>, <<Get(a, 0)>>),
   IfVersion(a, 1, <<Put(a)>>, <<Get(a, 0)>>),
   Always(<<Delete(a)>>),
   Always(<<Get(a, 0)>>)}

\* Transactions over two keys: each reads or writes what another writes.
MultiKeyRequests ==
  {Always(<<Put(a)>>),
   Always(<<Get(a, 0), Put(b)>>),
   IfMod(b, 0, <<Put(a), Put(b)>>, <<Put(a)>>),
   Always(<<Delete(b), Put(a)>>),
   Always(<<Get(a, 2), List({a, b}, 0)>>)}

\* Writers of one key that conflict and are retried.
RetryRequests == {Always(<<Put(a)>>), IfMod(a, 0, <<Put(a)>>, <<Get(a, 0)>>)}

\* Each writes one key and deletes the other.
SkewRequests == {Always(<<Put(a), Delete(b)>>), Always(<<Put(b), Delete(a)>>)}

\* Transactions with the same request are interchangeable.
Symmetry == Permutations(Txns)
=============================================================================
