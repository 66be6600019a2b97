------------------------ MODULE MCWorkbenchHandover ------------------------
\* Small instances of WorkbenchHandover for TLC.
EXTENDS WorkbenchHandover
=============================================================================
