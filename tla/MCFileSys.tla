------------------------------ MODULE MCFileSys -----------------------------
(***************************************************************************)
(* Instance of FileSys for TLC: a file or a device a and a directory d in  *)
(* the root, and a file a in d.                                            *)
(***************************************************************************)
EXTENDS FileSys

Path(fromRoot, names) == [abs |-> fromRoot, elems |-> names]

MCNames == {"a", "d"}

MCCalls ==
    {<<"creat", Path(FALSE, <<"a">>)>>, <<"creat", Path(TRUE, <<"d", "a">>)>>,
     <<"openw", Path(FALSE, <<"a">>)>>, <<"openw", Path(FALSE, <<"d", "..">>)>>,
     <<"open", Path(TRUE, <<"d">>)>>, <<"exec", Path(FALSE, <<"a">>)>>,
     <<"mkdir", Path(TRUE, <<"d">>)>>, <<"mkdir", Path(TRUE, <<>>)>>,
     <<"mknod", Path(TRUE, <<"a">>)>>, <<"stat", Path(FALSE, <<"a">>)>>,
     <<"chdir", Path(FALSE, <<"d">>)>>, <<"chdir", Path(FALSE, <<"..">>)>>,
     <<"chdir", Path(TRUE, <<"a">>)>>}
=============================================================================
