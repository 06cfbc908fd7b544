---------------------------- MODULE MCFileStore ----------------------------
(* FileStore on small crews: removals beside a record and a keeper, and     *)
(* removals beside ticks of the encode job.                                 *)
EXTENDS FileStore

=============================================================================
