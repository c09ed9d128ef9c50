--------------------------- MODULE MCVersionTool ---------------------------
EXTENDS VersionTool

CONSTANTS v1, v2

\* compose.yaml carries the version twice, the other targets once.
TwoThenOne == <<2, 1, 1>>

=============================================================================
