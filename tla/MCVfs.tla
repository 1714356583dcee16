------------------------------- MODULE MCVfs -------------------------------
(* Values for TLC: five keys, main and grey ones, paths in /dev and /home. *)
EXTENDS Vfs

MCPlain == [c \in {"a", "slash", "pad8", "shift_l", "shift_r"} |->
    CASE c = "a" -> "a" [] c = "slash" -> "/" [] c = "pad8" -> "8" [] OTHER -> "inv"]
MCShifted == [c \in DOMAIN MCPlain |->
    CASE c = "a" -> "A" [] c = "slash" -> "?" [] OTHER -> "inv"]
MCKey == {<<"a", 2>>, <<"slash", 3>>, <<"pad8", 3>>,
          <<"shift_l", 2>>, <<"shift_r", 2>>}

MCKDirs == {<<"/", "dev", "/">>, <<"/", "tmp", "/">>}
MCKNodes == {<<<<"/", "home", "/", "hello">>, "tty", 0>>, <<<<"/", "dev", "/", "disk">>, "disk", 0>>,
             <<<<"/", "dev", "/", "stdout">>, "keyboard", 1>>}
MCUPaths == {<<"/", "home", "/", "hello">>, <<"/", "home", "/", "new">>,
             <<"/", "dev", "/", "stdout">>, <<"/", "dev", "/", "input">>,
             <<"/", "dev", "/", "disk">>}
MCModes == {{"O_RDONLY"}, {"O_WRONLY", "O_CREAT"}}

MCLoads == {[keys |-> 4, chars |-> 0, opens |-> 1, nodes |-> 0, exits |-> 0],
            [keys |-> 0, chars |-> 7, opens |-> 1, nodes |-> 0, exits |-> 0],
            [keys |-> 0, chars |-> 1, opens |-> 3, nodes |-> 1, exits |-> 1]}

Symmetry == Permutations(Fil) \cup Permutations(Task)
=============================================================================
