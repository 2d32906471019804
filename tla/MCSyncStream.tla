---------------------------- MODULE MCSyncStream ----------------------------
(* Small instances of SyncStream. *)
EXTENDS SyncStream

CONSTANTS s1, s2, s3

=============================================================================
