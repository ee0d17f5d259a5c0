---------------------------- MODULE MCWorkspaceSync ----------------------------
EXTENDS WorkspaceSync

================================================================================
