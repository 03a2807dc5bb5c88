-------------------------- MODULE MCIpcConnection --------------------------
EXTENDS IpcConnection
=============================================================================
