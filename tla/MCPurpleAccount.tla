---- MODULE MCPurpleAccount ----
EXTENDS PurpleAccount
====
