-------------------------- MODULE MCStorageService --------------------------
EXTENDS StorageService

MCNamespaces == {"documents", "images"}
MCArrivals == {"r1", "r2"}
=============================================================================
