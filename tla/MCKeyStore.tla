---- MODULE MCKeyStore ----
EXTENDS KeyStore
====
