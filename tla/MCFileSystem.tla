---------------------------- MODULE MCFileSystem ----------------------------
(***************************************************************************)
(* Small images for FileSystem: names of two characters that count, a      *)
(* directory with a name twice, one whose names agree in the first         *)
(* character, and a full one.                                              *)
(***************************************************************************)
EXTENDS FileSystem

Entry(n, t, i) == [name |-> n, type |-> t, inode |-> i]
Dot == Entry(<<".">>, "dir", 0)

MCDirs ==
  {<<Dot, Entry(<<"a">>, "file", 1)>>,
   <<Dot, Entry(<<"a", "b">>, "file", 1), Entry(<<"a">>, "file", 0)>>,
   <<Dot, Entry(<<"a", "a">>, "rtc", 0), Entry(<<"a", "b">>, "file", 1),
     Entry(<<"a", "b">>, "file", 0)>>}

\* A directory with one file.
MCDir == {<<Dot, Entry(<<"a">>, "file", 1)>>}
MCFile == {<<"a">>}

\* The last is longer than a name in the directory can be.
MCNames == {<<".">>, <<"a">>, <<"a", "b">>, <<"b">>, <<"a", "b", "a">>}
=============================================================================
