------------------------------ MODULE MCStorage ------------------------------
(***************************************************************************)
(* Instance for TLC of the parts that keep data on one machine: the disk   *)
(* reservations, the files of blocks, the shards, the names tenants have   *)
(* in both, the times rows are stamped with, and the cache directory and   *)
(* the output of downloads.  A behaviour is about one of the six; the      *)
(* others wait.                                                            *)
(***************************************************************************)
EXTENDS Reservations, FileStore, Shards, Tenants, StoredTimes, MCDeltaDownload

CONSTANTS c1, c2, c3, o1, o2, f1, f2

VARIABLE about

MCAmounts == -1 .. 4

(* A name with a letter to replace, the name that replacing it gives, no   *)
(* name, and another name with a letter to replace whose digest is one of  *)
(* these names.                                                            *)
MCTenantNames == {<<"a", ".">>, <<"a", "_">>, <<>>, <<".">>}
MCSafeLetters == {"_", "a", "d", "x", "y", "z"}
MCDefaultName == <<"d">>
MCDigest == [n \in MCTenantNames |->
               CASE n = <<"a", ".">> -> <<"x">> [] n = <<"a", "_">> -> <<"y">>
                 [] n = <<>> -> <<"z">> [] n = <<".">> -> <<"a", "_">>]

Symmetry == Permutations({c1, c2, c3}) \cup Permutations({o1, o2}) \cup Permutations({f1, f2})

MCInit ==
  /\ Init /\ FileInit /\ ShardsInit /\ TenantsInit /\ TimesInit /\ DownloadInit
  /\ about \in {"disk", "files", "shards", "tenants", "times", "downloads"}
  /\ about # "times" => now = 0 /\ seconds = 0
  /\ about # "downloads" => live = first
  /\ about # "disk" => available = CHOOSE n \in FreeSpaces : TRUE

(* Downloads that have ended are no deadlock.                              *)
Downloaded == (\A c \in Clients : ~Downloading(c)) /\ UNCHANGED downloadVars

Disk       == about = "disk" /\ Next
              /\ UNCHANGED <<fileVars, shardVars, tenantVars, timeVars, downloadVars, about>>
BlockFiles == about = "files" /\ FileNext
              /\ UNCHANGED <<vars, shardVars, tenantVars, timeVars, downloadVars, about>>
Openings   == about = "shards" /\ ShardsNext
              /\ UNCHANGED <<vars, fileVars, tenantVars, timeVars, downloadVars, about>>
Names      == about = "tenants" /\ TenantsNext
              /\ UNCHANGED <<vars, fileVars, shardVars, timeVars, downloadVars, about>>
Times      == about = "times" /\ TimesNext
              /\ UNCHANGED <<vars, fileVars, shardVars, tenantVars, downloadVars, about>>
Downloads  == about = "downloads" /\ (DownloadNext \/ Downloaded)
              /\ UNCHANGED <<vars, fileVars, shardVars, tenantVars, timeVars, about>>

MCSpec ==
  MCInit /\ [][Disk \/ BlockFiles \/ Openings \/ Names \/ Times \/ Downloads]_<<vars, fileVars, shardVars,
                                                        tenantVars, timeVars, downloadVars, about>>
=============================================================================
