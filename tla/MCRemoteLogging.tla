-------------------------- MODULE MCRemoteLogging ---------------------------
(* RemoteLogging with the bounds of its configurations.                    *)
EXTENDS RemoteLogging
=============================================================================
