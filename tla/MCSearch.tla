----------------------------- MODULE MCSearch ------------------------------
(* Objects with and without lists, and lists with every kind of element.   *)
EXTENDS Search

PathLists ==
  {NotSet, <<Empty, Plain("v")>>, <<Plain("v"), Empty>>,
   <<Plain("v"), Overlong, Plain("u")>>, <<LongName("v"), Origin("o")>>}
OptionLists == {NotSet, <<Origin("o"), Plain("v")>>}
ObjectLists == {NotSet, <<Plain("u")>>, <<Origin("o")>>}
Requesters ==
  [rpath : ObjectLists, runpath : ObjectLists, dir : {<<"m">>}, isMain : BOOLEAN]
    \cup [rpath : {NotSet}, runpath : {<<Origin("o")>>}, dir : {NotSet}, isMain : {TRUE}]
Sites ==
  {{<<"v">>}, {<<"u">>, <<"m">>}, {<<"m", "o">>, <<"lib">>}, {<<Cwd, "o">>, <<Cwd>>}}
SystemDirs == <<"lib64", "usr/lib64", "lib", "usr/lib">>
=============================================================================
