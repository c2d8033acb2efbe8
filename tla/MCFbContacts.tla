---- MODULE MCFbContacts ----
EXTENDS FbContacts
====
