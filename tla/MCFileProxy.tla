---------------------------- MODULE MCFileProxy ----------------------------
(* Three workloads: two workers that serve files of two locations; one     *)
(* worker and every kind of request, one after the other, while the files  *)
(* change; a busy log, across a reload, whose files may fail to open.      *)
EXTENDS FileProxy, TLC

File(root, path) == [to |-> "file", root |-> root, path |-> path]
Other(to) == [to |-> to, root |-> None, path |-> None]

MCWorkloads ==
    {[workers |-> Threads,
      requests |-> {File("r1", "a"), File("r2", ""), File("r1", "..")},
      number |-> 2, changes |-> 0, reloads |-> 0, lines |-> {1},
      faults |-> FALSE],
     [workers |-> {CHOOSE w \in Threads : TRUE},
      requests |-> {File("r1", "a"), File("r2", ""), File("r1", "dir"),
                    File("r1", ".."), File("r2", None), Other("hello"),
                    Other("nowhere")},
      number |-> 3, changes |-> 2, reloads |-> 0, lines |-> {1},
      faults |-> FALSE],
     [workers |-> Threads, requests |-> {Other("nowhere")},
      number |-> 3, changes |-> 0, reloads |-> 1, lines |-> {2},
      faults |-> TRUE]}

MCSizes ==
    <<"r1", "a">> :> 2 @@ <<"r2", "index">> :> 1 @@ <<"r1", "index">> :> 0
        @@ <<"r1", "dir">> :> 1
MCDirs == {<<"r1", "dir">>}
=============================================================================
