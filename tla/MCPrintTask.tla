---------------------------- MODULE MCPrintTask ----------------------------
EXTENDS PrintTask, TLC
=============================================================================
