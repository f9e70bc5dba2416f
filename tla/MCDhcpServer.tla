---------------------------- MODULE MCDhcpServer ----------------------------
EXTENDS DhcpServer
=============================================================================
