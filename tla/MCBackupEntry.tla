----------------------------- MODULE MCBackupEntry -----------------------------
(***************************************************************************)
(* Instances of BackupEntry for TLC: two entries, the name of the one is   *)
(* the beginning of the name of the other.                                 *)
(***************************************************************************)
EXTENDS BackupEntry

MCEntries == {<<"a">>, <<"a", "b">>}
MCEntry   == {<<"a">>}
=============================================================================
