----------------------------- MODULE MCWasiPath -----------------------------
EXTENDS WasiPath

(* Descriptors at start; the standard output is a socket. D is preopened    *)
(* and holds directory A, file F and links.                                 *)
MCStdio == (0 :> [host |-> 0, type |-> "file", file |-> "stdin"])
                @@ (1 :> [host |-> 1, type |-> "sock", file |-> "sock"])
MCExisting == MCStdio @@ (2 :> [host |-> 2, type |-> "dir", file |-> "D"])
MCDirs == {"D", "A"}
MCLinks == {"up", "abs", "self", "loop"}
MCPath(comps, slash) == [comps |-> comps, slash |-> slash]
MCTarget == ("up" :> MCPath(<<"..", "y">>, FALSE)) @@ ("abs" :> MCPath(<<"", "x">>, FALSE))
                @@ ("self" :> MCPath(<<"x", "x">>, FALSE)) @@ ("loop" :> MCPath(<<"x">>, FALSE))
MCFileSystem == ("D" :> ("x" :> "A" @@ "y" :> "F" @@ "z" :> NULL))
                @@ ("A" :> ("x" :> "up" @@ "y" :> NULL @@ "z" :> NULL))
MCSwaps == {<<"D", "x", "abs">>, <<"D", "x", "self">>, <<"D", "x", "loop">>,
             <<"D", "y", "abs">>, <<"A", "x", "A">>}

MCRequest(op, comps, slash, follow, base) ==
    [op |-> op, path |-> MCPath(comps, slash), follow |-> follow,
     base |-> base, inheriting |-> {}, path2 |-> MCPath(<<"y">>, FALSE)]
MCRequests ==
    {MCRequest("path_open", <<"x", "x">>, FALSE, TRUE, {"FD_READ"}),
     MCRequest("path_open", <<"y">>, FALSE, FALSE, {"FD_WRITE"}),
     MCRequest("path_open_creat", <<"z">>, TRUE, FALSE, {"FD_READ"}),
     MCRequest("path_open_creat", <<"z">>, FALSE, FALSE, {"FD_WRITE"}),
     MCRequest("path_open", <<"x", "x">>, TRUE, FALSE, {"FD_READDIR"}),
     MCRequest("path_link", <<"x", "y">>, FALSE, TRUE, {}),
     MCRequest("path_symlink", <<".", "y">>, FALSE, FALSE, {}),
     MCRequest("path_readlink", <<"x", "..", "..">>, FALSE, FALSE, {}),
     MCRequest("path_filestat_get", <<"x", "x", "x">>, TRUE, FALSE, {}),
     MCRequest("path_unlink_file", << >>, FALSE, FALSE, {})}
=============================================================================
