------------------------------- MODULE MCVfs -------------------------------
(* Two processes, a name in /home that either may make a file or a           *)
(* directory, and a name in the archive, where nothing can be created.       *)
EXTENDS Vfs

File == <<"home", "x">>
SomePaths == {File, <<"y">>}
SomeDirs == {File}
=============================================================================
