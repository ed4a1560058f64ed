-------------------------- MODULE MCLevelDbTransaction -------------------------
(* Small instances of a transaction for TLC. *)
EXTENDS LevelDbTransaction

CONSTANTS u, v

\* Every row takes one value, as index rows and sentinels do, or any.
OneValue(k) == IF k \in Messages THEN Values ELSE {v}
AnyValue(k) == Values
================================================================================
