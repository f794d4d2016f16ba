----------------------------- MODULE MCFileExplorer -----------------------------
(* A directory with a file in the root and one below, and a disk whose      *)
(* homelib directory is that directory.  "../new" is typed, which in the     *)
(* root is a name alone, and "sub/new".                                      *)
EXTENDS FileExplorer, TLC

CONSTANTS sub, doc, new, folder, dev, new1, c1, c2

MCNames     == {sub, doc, new, new1, folder, dev}
MCContents  == {c1, c2}
MCFirstTree == (Root :> "dir") @@ (<<sub>> :> "dir") @@ (<<doc>> :> c1) @@ (<<sub, doc>> :> c2)
MCPlaces    == {<<sub>>}
MCNewNames  == [kind \in {"file", "folder"} |-> IF kind = "file" THEN <<new, new1>> ELSE <<folder>>]
MCTyped     == {[ups |-> 1, down |-> <<new>>], [ups |-> 0, down |-> <<sub, new>>]}
MCDiskPath  == <<dev>>
MCHomeRoot  == <<sub>>
================================================================================
