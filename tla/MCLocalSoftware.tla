---- MODULE MCLocalSoftware ----
EXTENDS LocalSoftware
====
