----------------------------- MODULE MCFileWatcher -----------------------------
(* FileWatcher on small instances: the values are in the configurations.      *)
EXTENDS FileWatcher

===============================================================================
