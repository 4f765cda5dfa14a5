------------------------------ MODULE MCLoader ------------------------------
(* A program m and two libraries, a and b, over every dependency graph in  *)
(* which each of them needs at most two of four names: na and nb, the      *)
(* names of the libraries; nb1, the DT_SONAME of b; xb, a path to b.  The  *)
(* directory of b under its DT_SONAME is in the DT_RUNPATH of a only.      *)
EXTENDS Loader

MCFile == {"m", "a", "b"}
MCName == {"main", "na", "nb", "nb1", "xb"}
MCSlash == {"xb"}
MCBaseOf == [n \in MCName |-> IF n = "xb" THEN "nb" ELSE n]
MCDtSoname == [f \in MCFile |-> IF f = "b" THEN "nb1" ELSE "none"]
MCFound ==
  [fn \in MCFile \X MCName |->
     CASE fn[2] = "main" -> "m"
       [] fn[2] = "na" -> "a"
       [] fn[2] \in {"nb", "xb"} -> "b"
       [] fn[2] = "nb1" -> IF fn[1] = "m" THEN "none" ELSE "b"]
Needable == {"na", "nb", "nb1", "xb"}
MCNeededLists == {<<>>} \cup {<<n>> : n \in Needable} \cup
                 {s \in Needable \X Needable : s[1] # s[2]}
MCPreloadLists == {<<>>, <<"na", "na">>, <<"xb", "na">>}

(* For the runs about one library: b is found everywhere, was preloaded    *)
(* under its file name, and is needed by a path or by its DT_SONAME.       *)
PathNeededLists == {<<>>, <<"xb">>}
SonameNeededLists == {<<>>, <<"nb1">>}
OnePreloadLists == {<<"nb">>}
AnywhereFound == [fn \in MCFile \X MCName |-> IF fn[2] = "na" THEN "a" ELSE "b"]
=============================================================================
