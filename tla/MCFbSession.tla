---- MODULE MCFbSession ----
EXTENDS FbSession
====
