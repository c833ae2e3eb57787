---- MODULE MCFileMisc ----
(* A folder with a file that matches the mask and one that does not and that *)
(* another program puts there, and a subfolder with a file and a file whose  *)
(* name begins with a dot.                                                   *)
EXTENDS FileMisc

MCDirs   == {"src", "sub"}
MCFiles  == {"a.txt", "b.doc", ".c", "d.doc"}
MCParent == [e \in (MCFiles \cup MCDirs) \ {"src"} |->
               IF e \in {".c", "d.doc"} THEN "sub" ELSE "src"]
====
