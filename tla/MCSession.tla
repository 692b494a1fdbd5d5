------------------------------- MODULE MCSession -------------------------------
(* Instances of Session for TLC. *)
EXTENDS Session

All == {"mysql", "postgres", "odbc", "oracle"}
OnlyMySql == {"mysql"}
Texts == {1, 2}
AllOps == {"query", "queryAll", "execute", "executeKeys", "stream", "batch", "savepoint", "release",
           "rollbackTo", "begin", "commit", "rollback", "queryBound", "executeBound", "call",
           "prepare", "run", "cursor", "native"}
QueryOnly == {"query"}
================================================================================
