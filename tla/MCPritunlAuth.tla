---------------------------- MODULE MCPritunlAuth ----------------------------
EXTENDS PritunlAuth

MCCalls == 1..2
MCNames == {"user", "ping"}
MCPublic == {"ping"}
====
