---------------------------- MODULE MCLogWriter ----------------------------
(***************************************************************************)
(* Two workers log audit records, an own event that carries a field named  *)
(* audit_record, and records of pingora at debug; the outputs on and off,  *)
(* with and without rotation and retention, and filters that let all, some *)
(* or nothing through.                                                     *)
(***************************************************************************)
EXTENDS LogWriter

MCKinds ==
  { [src |-> "audit", level |-> 2, record |-> TRUE],
    [src |-> "own", level |-> 1, record |-> TRUE],
    [src |-> "pingora", level |-> 4, record |-> FALSE] }

Log(file, mirror, rotates, max_files, own, pingora) ==
  [file |-> file, stderr |-> mirror, rotates |-> rotates, max_files |-> max_files,
   own |-> own, pingora |-> pingora]

MCLogConfigs ==
  { Log(TRUE, TRUE, FALSE, 2, 3, 0), Log(TRUE, FALSE, TRUE, 2, 3, 0),
    Log(TRUE, FALSE, TRUE, 0, 3, 0), Log(TRUE, TRUE, FALSE, 2, 0, 4),
    Log(FALSE, TRUE, FALSE, 0, 3, 4), Log(FALSE, FALSE, FALSE, 0, 3, 3) }
=============================================================================
