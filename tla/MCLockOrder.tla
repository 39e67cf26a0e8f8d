---------------------------- MODULE MCLockOrder -----------------------------
(* LockOrder with every choice of three of nine threads: three kinds take   *)
(* a lock under another one, and each lock is wanted by at most two more.   *)
EXTENDS LockOrder

MCReaders == {"reader"}
MCWriters == {"writer"}
MCPublishers == {"publisher", "publisher2"}
=============================================================================
